---- MODULE Spec2Model ----
(***************************************************************************)
(* EDOPro HD Pics Downloader: the concurrent download engine.              *)
(*                                                                         *)
(* Threads of the program:                                                 *)
(*   - the HTTP server thread (HTTPServer is single threaded, so request   *)
(*     handlers never overlap each other, but they interleave with the     *)
(*     threads below);                                                     *)
(*   - one coordinator thread per accepted /api/start                      *)
(*     (download_worker_main);                                             *)
(*   - the pool threads of each coordinator's ThreadPoolExecutor           *)
(*     (download_worker_task / download_file).                             *)
(*                                                                         *)
(* A step of the model is one access to shared state (a RunState field, a  *)
(* file, a future) together with the thread-local code around it.          *)
(* Of the log buffer (state.logs) the state machine of the runs keeps, in  *)
(* `logs`, the number of entries the request handlers appended since the   *)
(* last reset; the entries the coordinator appends are left out.  The      *)
(* buffer itself, with its entries, is `logbuf`, which has a state machine *)
(* of its own (LogSpec).                                                   *)
(* Files follow POSIX semantics: an open handle stays attached to its      *)
(* inode when the path is renamed or unlinked.                             *)
(***************************************************************************)
EXTENDS Integers, Sequences, FiniteSets, TLC

\* Largest number of download tasks build_download_tasks derives from the
\* catalogue.
NTasks == 2
\* Largest number of /api/start requests accepted in a behaviour.
MaxStarts == 2
\* Largest retry count a start request passes (the code clamps it to [1,10]).
MaxRetry == 2
\* Largest number of /api/cancel requests handled between two resets.
MaxCancels == 2

Tasks == 1..NTasks
Coords == 1..MaxStarts

\* The (subfolder, imageId) targets of the output tree.
Targets == 1..NTasks

\* build_download_tasks emits the tasks in catalogue order.
RECURSIVE UpTo(_)
UpTo(n) == IF n = 0 THEN <<>> ELSE Append(UpTo(n - 1), n)

(***************************************************************************)
(* Request parameters                                                      *)
(***************************************************************************)
Clamp(lo, hi, v) == IF v < lo THEN lo ELSE IF v > hi THEN hi ELSE v

Request(f, om, ve, conc, r) ==
    [force |-> f, onlyMissing |-> om, validateExisting |-> ve,
     concurrency |-> conc, retry |-> r]

NoParams == Request(FALSE, FALSE, FALSE, 1, 1)

\* download_worker_main, lines 706-743: the effective configuration.
Effective(p) ==
    [force            |-> p.force,
     onlyMissing      |-> IF p.force THEN FALSE ELSE p.onlyMissing,
     validateExisting |-> p.validateExisting,
     concurrency      |-> Clamp(1, 50, p.concurrency),
     retry            |-> Clamp(1, 10, p.retry)]

(***************************************************************************)
(* The environments explored.  The remote catalogue, the number of start   *)
(* requests the user sends and the configurations they carry are fixed     *)
(* along a behaviour:                                                      *)
(*   - one start request over a catalogue of NTasks tasks, with any        *)
(*     combination of the flags, one pool thread or one per task;          *)
(*   - up to MaxStarts start requests over a catalogue of one task, each   *)
(*     with the default flags;                                             *)
(*   - one start request over a catalogue whose NTasks tasks all have the  *)
(*     same (subfolder, imageId), with one pool thread per task.           *)
(***************************************************************************)
Environments ==
    {[ntasks |-> NTasks, starts |-> 1, duplicates |-> FALSE,
      params |-> {Request(f, om, ve, conc, MaxRetry) :
                     f \in BOOLEAN, om \in BOOLEAN, ve \in BOOLEAN,
                     conc \in {1, NTasks}}],
     [ntasks |-> 1, starts |-> MaxStarts, duplicates |-> FALSE,
      params |-> {Request(FALSE, FALSE, FALSE, 1, MaxRetry)}],
     [ntasks |-> NTasks, starts |-> 1, duplicates |-> TRUE,
      params |-> {Request(f, FALSE, FALSE, NTasks, MaxRetry) :
                     f \in BOOLEAN}]}

VARIABLES
    \* the environment: catalogue size, start requests to come
    env,
    \* DownloadState (the single global `state`)
    running, total, processed, skipped, errors,
    cancel_flag, pause_flag, error_details, api_error, report, logs,
    \* HTTP server thread: the request being handled
    hpc,
    \* coordinator threads, one per accepted start
    co,
    \* futures and pool workers of each coordinator
    wk,
    \* output tree: <target>.jpg and <target>.jpg.part
    final, part,
    \* a call of a pure function of the program: its argument and its result
    call,
    \* state.logs and the threads inside add_log
    logbuf

runstate == <<running, total, processed, skipped, errors,
              cancel_flag, pause_flag, error_details, api_error, report,
              logs>>
vars == <<env, running, total, processed, skipped, errors,
          cancel_flag, pause_flag, error_details, api_error, report, logs,
          hpc, co, wk, final, part, call, logbuf>>

\* The tasks build_download_tasks derives from the catalogue served.
AllTasks == UpTo(env.ntasks)

\* The (subfolder, imageId) of task t: its own, or the same for every task
\* when the catalogue repeats an image id.
Target(t) == IF env.duplicates THEN 1 ELSE t

(***************************************************************************)
(* Files                                                                   *)
(*   "none"    no file at the path                                         *)
(*   "old_ok"  a file from before, passing verify_jpeg                     *)
(*   "old_bad" a file from before, failing verify_jpeg                     *)
(*   "partial" a body being written, or cut short                          *)
(*   "new_ok"  a complete downloaded body that passes verify_jpeg          *)
(***************************************************************************)
InitialFile == <<"none", "old_bad", "old_ok">>

\* The output trees a behaviour starts from: every kind of file at every
\* target, and different kinds at neighbouring targets.
InitialTrees ==
    {[g \in Targets |-> InitialFile[((g + k) % 3) + 1]] : k \in 0..2}

verify_jpeg(content) == content \in {"old_ok", "new_ok"}

exists(content) == content # "none"

\* filter_tasks
filter_tasks(tasks, files, only_missing, validate_existing) ==
    IF ~only_missing /\ ~validate_existing
    THEN tasks
    ELSE LET keep(t) ==
                 \/ ~exists(files[Target(t)])
                 \/ /\ validate_existing
                    /\ ~verify_jpeg(files[Target(t)])
                 \/ /\ ~validate_existing
                    /\ ~only_missing
         IN SelectSeq(tasks, keep)

(***************************************************************************)
(* Coordinators and workers                                                *)
(***************************************************************************)
\* A coordinator thread: its position in download_worker_main, its locals
\* (params, tasks, cancel_requested), and its history: it submitted tasks to
\* a pool (dispatched), the number of write_report calls it made (nreports),
\* the number of catalogue requests it made (fetches), a /api/cancel request
\* was handled while it existed (cancelled).
IdleCo ==
    [pc |-> "idle", params |-> NoParams, tasks |-> <<>>,
     cancel_requested |-> FALSE, dispatched |-> FALSE,
     nreports |-> 0, fetches |-> 0, cancelled |-> FALSE]

IdleWk ==
    [st |-> "none", att |-> 0, h |-> "-", clob |-> FALSE, full |-> FALSE,
     res |-> "-"]

\* A coordinator thread exists and has not yet left download_worker_main.
Live(c) == co[c].pc \notin {"idle", "done"}

InSeq(t, s) == \E k \in 1..Len(s) : s[k] = t

\* Worker states in which a pool thread is executing the task.
Executing == {"attempt", "stream", "pchk", "wait", "woke", "verify", "replace",
              "fail", "intr"}
\* Worker states in which the task's temp file is open for writing.
Writing == {"stream", "pchk", "wait", "woke"}

\* The worker evaluates `while state.pause_flag` (line 525): on entering the
\* `with state.pause_cond` block ("pchk"), or after pause_cond.wait returned
\* and the cancel check of line 527 passed ("woke").
PauseCheck == {"pchk", "woke"}

\* pause_cond is held by a worker that returned from pause_cond.wait and has
\* not yet evaluated the loop condition again.
pause_cond_held == \E c \in Coords, t \in Tasks : wk[c][t].st = "woke"

NExecuting(c) == Cardinality({t \in Tasks : wk[c][t].st \in Executing})

\* DownloadState.__init__: state.logs is empty, state.lock is free, no
\* thread is inside add_log, no /api/status answer is being written.
EmptyLog ==
    [logs |-> <<>>, appended |-> 0, since |-> 0, resets |-> 0,
     lock |-> "free", pc |-> [th \in {"server", "pool"} |-> "idle"],
     snapshot |-> <<>>]

\* No pure function is being evaluated.
NoCall == [fn |-> "none", arg |-> <<>>, done |-> FALSE, ret |-> <<>>]

\* DownloadState.__init__, and no request handled yet.
Constructed ==
    /\ running = FALSE
    /\ total = 0
    /\ processed = 0
    /\ skipped = 0
    /\ errors = 0
    /\ cancel_flag = FALSE
    /\ pause_flag = FALSE
    /\ error_details = <<>>
    /\ api_error = FALSE
    /\ report = FALSE
    /\ logs = 0
    /\ logbuf = EmptyLog
    /\ hpc = "idle"
    /\ co = [c \in Coords |-> IdleCo]
    /\ wk = [c \in Coords |-> [t \in Tasks |-> IdleWk]]
    /\ part = [g \in Targets |-> "none"]

Init ==
    /\ env \in Environments
    /\ final \in InitialTrees
    /\ call = NoCall
    /\ Constructed

(***************************************************************************)
(* HTTP handlers (RequestHandler.do_POST)                                  *)
(***************************************************************************)
\* reset leaving the cancel and pause flags as they are.
reset_keeping_flags ==
    /\ running' = FALSE
    /\ total' = 0
    /\ processed' = 0
    /\ skipped' = 0
    /\ errors' = 0
    /\ cancel_flag' = cancel_flag
    /\ pause_flag' = pause_flag
    /\ error_details' = <<>>
    /\ api_error' = FALSE
    /\ report' = FALSE
    /\ logs' = 0

\* DownloadState.reset
reset ==
    /\ running' = FALSE
    /\ total' = 0
    /\ processed' = 0
    /\ skipped' = 0
    /\ errors' = 0
    /\ cancel_flag' = FALSE
    /\ pause_flag' = FALSE
    /\ error_details' = <<>>
    /\ api_error' = FALSE
    /\ report' = FALSE
    /\ logs' = 0

\* StartRejected with the reset of an accepted start done before the answer.
StartRejected_with_reset ==
    /\ hpc = "idle"
    /\ running
    /\ reset
    /\ UNCHANGED <<env, call, logbuf, hpc, co, wk, final, part>>

\* /api/start, line 2514: a request arriving while state.running is set is
\* answered 409 and changes nothing.
StartRejected ==
    /\ hpc = "idle"
    /\ running
    /\ UNCHANGED vars

\* /api/start, line 2514: state.running is not set, the request goes on.
StartCheck ==
    /\ hpc = "idle"
    /\ ~running
    /\ Cardinality({c \in Coords : co[c].pc # "idle"}) < env.starts
    /\ hpc' = "start"
    /\ UNCHANGED <<env, call, logbuf, runstate, co, wk, final, part>>

\* /api/start, lines 2523-2535: reset, spawn the coordinator thread, answer
\* {started}.  The thread's configuration is the one lines 706-743 derive
\* from the request.
StartSpawn ==
    /\ hpc = "start"
    /\ reset
    /\ \E p \in env.params :
         LET c == CHOOSE x \in Coords :
                      /\ co[x].pc = "idle"
                      /\ \A y \in Coords : co[y].pc = "idle" => x <= y
         IN co' = [co EXCEPT ![c] = [IdleCo EXCEPT !.pc = "spawned",
                                                     !.params = Effective(p)]]
    /\ hpc' = "idle"
    /\ UNCHANGED <<env, call, logbuf, wk, final, part>>

\* /api/cancel, line 2538.
CancelSet ==
    /\ hpc = "idle"
    /\ logs < MaxCancels
    /\ cancel_flag' = TRUE
    /\ co' = [c \in Coords |->
                 IF Live(c) THEN [co[c] EXCEPT !.cancelled = TRUE] ELSE co[c]]
    /\ hpc' = "cancel"
    /\ UNCHANGED <<env, call, logbuf, logs, running, total, processed, skipped,
                   errors, pause_flag, error_details, api_error, report, wk,
                   final, part>>

\* /api/cancel, lines 2539-2543: clear the pause flag, wake the waiters and
\* log the request.
CancelWake ==
    /\ hpc = "cancel"
    /\ ~pause_cond_held
    /\ pause_flag' = FALSE
    /\ logs' = logs + 1
    /\ hpc' = "idle"
    /\ UNCHANGED <<env, call, logbuf, running, total, processed, skipped,
                   errors, cancel_flag, error_details, api_error, report, co,
                   wk, final, part>>

\* /api/pause
Pause ==
    /\ hpc = "idle"
    /\ pause_flag' = TRUE
    /\ UNCHANGED <<env, call, logbuf, logs, running, total, processed, skipped,
                   errors, cancel_flag, error_details, api_error, report, hpc,
                   co, wk, final, part>>

\* /api/resume
Resume ==
    /\ hpc = "idle"
    /\ ~pause_cond_held
    /\ pause_flag' = FALSE
    /\ UNCHANGED <<env, call, logbuf, logs, running, total, processed, skipped,
                   errors, cancel_flag, error_details, api_error, report, hpc,
                   co, wk, final, part>>

\* /api/preview, lines 2443-2450 and 2474-2476: the to_download count
\* answered for request p over the output tree `files`.
to_download(p, files) ==
    LET only_missing == IF p.force THEN FALSE ELSE p.onlyMissing
        validate_existing == IF p.force THEN FALSE ELSE p.validateExisting
    IN Len(filter_tasks(AllTasks, files, only_missing, validate_existing))

\* /api/preview: the handler reads the catalogue and the output tree and
\* answers; it writes no RunState field and no file.
Preview ==
    /\ hpc = "idle"
    /\ UNCHANGED vars

\* /api/status: the snapshot copied under state.lock.
StatusSnapshot ==
    [total |-> total, processed |-> processed, skipped |-> skipped,
     errors |-> errors, finished |-> ~running, paused |-> pause_flag,
     api_error |-> api_error, report |-> report, logs |-> logs]

(***************************************************************************)
(* Coordinator thread (download_worker_main)                               *)
(***************************************************************************)
\* line 701
CoSetRunning(c) ==
    /\ co[c].pc = "spawned"
    /\ running' = TRUE
    /\ co' = [co EXCEPT ![c].pc = "clear"]
    /\ UNCHANGED <<env, call, logbuf, logs, total, processed, skipped, errors,
                   cancel_flag, pause_flag, error_details, api_error, report,
                   hpc, wk, final, part>>

\* line 702
CoClearCancel(c) ==
    /\ co[c].pc = "clear"
    /\ cancel_flag' = FALSE
    /\ co' = [co EXCEPT ![c].pc = "prepare"]
    /\ UNCHANGED <<env, call, logbuf, logs, running, total, processed, skipped,
                   errors, pause_flag, error_details, api_error, report, hpc,
                   wk, final, part>>

\* lines 745-761: the output directory does not resolve to a pics folder.
CoInvalidDir(c) ==
    /\ co[c].pc = "prepare"
    /\ running' = FALSE
    /\ co' = [co EXCEPT ![c].pc = "finally"]
    /\ UNCHANGED <<env, call, logbuf, logs, total, processed, skipped, errors,
                   cancel_flag, pause_flag, error_details, api_error, report,
                   hpc, wk, final, part>>

\* lines 745-769: the output directory resolves to an existing pics folder.
CoValidDir(c) ==
    /\ co[c].pc = "prepare"
    /\ co' = [co EXCEPT ![c].pc = "fetch"]
    /\ UNCHANGED <<env, call, logbuf, runstate, hpc, wk, final, part>>

\* lines 771-786: the catalogue fetch raises.
CoApiError(c) ==
    /\ co[c].pc = "fetch"
    /\ api_error' = TRUE
    /\ running' = FALSE
    /\ co' = [co EXCEPT ![c].pc = "finally", ![c].fetches = @ + 1]
    /\ UNCHANGED <<env, call, logbuf, logs, total, processed, skipped, errors,
                   cancel_flag, pause_flag, error_details, report, hpc, wk,
                   final, part>>

\* lines 775-778: the catalogue holds no entries.
CoNoCards(c) ==
    /\ co[c].pc = "fetch"
    /\ running' = FALSE
    /\ co' = [co EXCEPT ![c].pc = "finally", ![c].fetches = @ + 1]
    /\ UNCHANGED <<env, call, logbuf, logs, total, processed, skipped, errors,
                   cancel_flag, pause_flag, error_details, api_error, report,
                   hpc, wk, final, part>>

\* lines 788-819: build and filter the task list, set state.total, submit
\* every task to the pool (or finish when nothing is left).
CoDispatch(c) ==
    /\ co[c].pc = "fetch"
    /\ LET e == co[c].params
           ts == filter_tasks(AllTasks, final, e.onlyMissing,
                              e.validateExisting)
       IN /\ total' = Len(ts)
          /\ IF Len(ts) = 0
             THEN /\ running' = FALSE
                  /\ co' = [co EXCEPT ![c].pc = "finally", ![c].fetches = @ + 1]
                  /\ wk' = wk
             ELSE /\ running' = running
                  /\ co' = [co EXCEPT ![c].pc = "pool", ![c].tasks = ts,
                                      ![c].fetches = @ + 1,
                                      ![c].dispatched = TRUE]
                  /\ wk' = [wk EXCEPT ![c] =
                               [t \in Tasks |->
                                   IF InSeq(t, ts)
                                   THEN [IdleWk EXCEPT !.st = "pending"]
                                   ELSE IdleWk]]
    /\ UNCHANGED <<env, call, logbuf, logs, processed, skipped, errors,
                   cancel_flag, pause_flag, error_details, api_error, report,
                   hpc, final, part>>

\* Futures as_completed can yield: finished, or cancelled and notified.
Yieldable == {"done", "notified"}

\* Future.cancel() on every future: only one still pending is cancelled.
cancel_all(w) ==
    [t \in Tasks |-> IF w[t].st = "pending"
                     THEN [w[t] EXCEPT !.st = "cancelled"]
                     ELSE w[t]]

\* status_counter with a Cancelled outcome counted as an error.
status_counter_cancelled_as_error(r) ==
    CASE r = "Success" -> "processed"
      [] r = "Skipped" -> "skipped"
      [] r = "Error" -> "errors"
      [] r = "Exception" -> "errors"
      [] r = "Cancelled" -> "errors"
      [] OTHER -> "none"

\* status_counter with an unexpected exception of a worker left uncounted.
status_counter_exception_uncounted(r) ==
    CASE r = "Success" -> "processed"
      [] r = "Skipped" -> "skipped"
      [] r = "Error" -> "errors"
      [] OTHER -> "none"

\* lines 834-862: the counter a future's outcome increments ("Exception" is
\* any exception future.result() raises other than CancelledError; a future
\* cancelled before it ran has no result and raises CancelledError).
status_counter(r) ==
    CASE r = "Success" -> "processed"
      [] r = "Skipped" -> "skipped"
      [] r = "Error" -> "errors"
      [] r = "Exception" -> "errors"
      [] OTHER -> "none"

\* lines 822-862: one iteration of the as_completed loop, for future t.
CoCollect(c, t) ==
    /\ co[c].pc = "pool"
    /\ wk[c][t].st \in Yieldable
    /\ LET first == cancel_flag /\ ~co[c].cancel_requested
           w1 == IF first THEN cancel_all(wk[c]) ELSE wk[c]
           r == wk[c][t].res
       IN /\ co' = [co EXCEPT ![c].cancel_requested = @ \/ first]
          /\ wk' = [wk EXCEPT ![c] =
                       [w1 EXCEPT ![t] = [IdleWk EXCEPT !.st = "collected"]]]
          /\ processed' = IF status_counter(r) = "processed"
                          THEN processed + 1 ELSE processed
          /\ skipped' = IF status_counter(r) = "skipped"
                        THEN skipped + 1 ELSE skipped
          /\ errors' = IF status_counter(r) = "errors"
                       THEN errors + 1 ELSE errors
          /\ error_details' = IF r = "Error"
                              THEN Append(error_details, t)
                              ELSE error_details
    /\ UNCHANGED <<env, call, logbuf, logs, running, total, cancel_flag,
                   pause_flag, api_error, report, hpc, final, part>>

\* CoReport for a pool that is left without waiting for its threads
\* (shutdown(wait=False)): it is enough that no task is still queued.
CoReport_without_waiting(c) ==
    /\ co[c].pc = "pool"
    /\ \A t \in Tasks : wk[c][t].st \notin {"pending", "cancelled"}
    /\ \E written \in BOOLEAN :
         /\ report' = IF written THEN TRUE ELSE report
         /\ co' = [co EXCEPT ![c].pc = "finally",
                             ![c].nreports = @ + 1]
    /\ UNCHANGED <<env, call, logbuf, logs, running, total, processed, skipped,
                   errors, cancel_flag, pause_flag, error_details, api_error,
                   hpc, wk, final, part>>

\* lines 864-902: every future has been yielded and the pool has shut down;
\* the summary is logged and the report written (write_report may fail and
\* return None, which leaves state.report unset).
CoReport(c) ==
    /\ co[c].pc = "pool"
    /\ \A t \in Tasks : wk[c][t].st \in {"none", "collected"}
    /\ \E written \in BOOLEAN :
         /\ report' = IF written THEN TRUE ELSE report
         /\ co' = [co EXCEPT ![c].pc = "finally",
                             ![c].nreports = @ + 1]
    /\ UNCHANGED <<env, call, logbuf, logs, running, total, processed, skipped,
                   errors, cancel_flag, pause_flag, error_details, api_error,
                   hpc, wk, final, part>>

\* line 908: the thread ends, and its futures and pool with it.
CoFinally(c) ==
    /\ co[c].pc = "finally"
    /\ running' = FALSE
    /\ co' = [co EXCEPT ![c] = [IdleCo EXCEPT !.pc = "done",
                                             !.dispatched = co[c].dispatched,
                                             !.nreports = co[c].nreports]]
    /\ wk' = [wk EXCEPT ![c] = [t \in Tasks |-> IdleWk]]
    /\ UNCHANGED <<env, call, logbuf, logs, total, processed, skipped, errors,
                   cancel_flag, pause_flag, error_details, api_error, report,
                   hpc, final, part>>

(***************************************************************************)
(* Pool threads (ThreadPoolExecutor, download_worker_task, download_file)  *)
(***************************************************************************)
\* CanTake for a pool that starts a thread for every task submitted.
CanTake_unbounded(c, t) ==
    /\ co[c].pc = "pool"
    /\ \A u \in Tasks : u < t => wk[c][u].st \notin {"pending", "cancelled"}

\* The pool's work queue is FIFO: t is taken when every task submitted
\* before it has been taken, and a pool thread is free.
CanTake(c, t) ==
    /\ co[c].pc = "pool"
    /\ \A u \in Tasks : u < t => wk[c][u].st \notin {"pending", "cancelled"}
    /\ NExecuting(c) < co[c].params.concurrency

\* The other workers that hold the inode at g's temp path open.
SharesTemp(c, t, c2, t2) ==
    /\ <<c2, t2>> # <<c, t>>
    /\ Target(t2) = Target(t)
    /\ wk[c2][t2].st \in Writing

\* open(temp, "wb") by worker (c,t): it truncates the inode other writers
\* of the same temp path hold.
AfterOpen(c, t) ==
    [c2 \in Coords |-> [t2 \in Tasks |->
        IF <<c2, t2>> = <<c, t>>
        THEN [wk[c][t] EXCEPT !.st = "stream", !.h = "part",
                              !.clob = FALSE, !.full = FALSE]
        ELSE IF SharesTemp(c, t, c2, t2) /\ wk[c2][t2].h = "part"
        THEN [wk[c2][t2] EXCEPT !.clob = TRUE]
        ELSE wk[c2][t2]]]

\* os.remove(temp) by worker (c,t), which moves on as `me`: the inode stays
\* with the writers that hold it, but has no path any more.
AfterRemove(c, t, me) ==
    [c2 \in Coords |-> [t2 \in Tasks |->
        IF <<c2, t2>> = <<c, t>>
        THEN me
        ELSE IF SharesTemp(c, t, c2, t2) /\ wk[c2][t2].h = "part"
        THEN [wk[c2][t2] EXCEPT !.h = "gone"]
        ELSE wk[c2][t2]]]

\* os.replace(temp, outpath) by worker (c,t): the temp inode becomes the
\* final file, the former final inode loses its path.
AfterReplace(c, t, me) ==
    [c2 \in Coords |-> [t2 \in Tasks |->
        IF <<c2, t2>> = <<c, t>>
        THEN me
        ELSE IF SharesTemp(c, t, c2, t2) /\ wk[c2][t2].h = "part"
        THEN [wk[c2][t2] EXCEPT !.h = "final"]
        ELSE IF SharesTemp(c, t, c2, t2) /\ wk[c2][t2].h = "final"
        THEN [wk[c2][t2] EXCEPT !.h = "gone"]
        ELSE wk[c2][t2]]]

Returned(r) == [IdleWk EXCEPT !.st = "done", !.res = r]

\* _WorkItem.run on a cancelled future: set_running_or_notify_cancel tells
\* the as_completed waiter, the task never runs.
WNotify(c, t) ==
    /\ wk[c][t].st = "cancelled"
    /\ CanTake(c, t)
    /\ wk' = [wk EXCEPT ![c][t].st = "notified"]
    /\ UNCHANGED <<env, call, logbuf, runstate, hpc, co, final, part>>

\* WStart skipping every existing file when force is off, validated or not.
WStart_skipping_unvalidated(c, t) ==
    /\ wk[c][t].st = "pending"
    /\ CanTake(c, t)
    /\ LET e == co[c].params
           f == final[Target(t)]
       IN \/ /\ cancel_flag
             /\ wk' = [wk EXCEPT ![c][t] = Returned("Cancelled")]
          \/ /\ ~cancel_flag
             /\ ~exists(f) /\ ~exists(part[Target(t)])
             /\ wk' = [wk EXCEPT ![c][t] = Returned("Error")]
          \/ /\ ~cancel_flag
             /\ exists(f) /\ ~e.force
             /\ wk' = [wk EXCEPT ![c][t] = Returned("Skipped")]
          \/ /\ ~cancel_flag
             /\ ~(exists(f) /\ ~e.force)
             /\ wk' = [wk EXCEPT ![c][t].st = "attempt", ![c][t].att = 1]
    /\ UNCHANGED <<env, call, logbuf, runstate, hpc, co, final, part>>

\* download_worker_task, lines 658-678 and 687-696.
WStart(c, t) ==
    /\ wk[c][t].st = "pending"
    /\ CanTake(c, t)
    /\ LET e == co[c].params
           f == final[Target(t)]
       IN \/ /\ cancel_flag
             /\ wk' = [wk EXCEPT ![c][t] = Returned("Cancelled")]
          \/ \* the target directory does not exist
             /\ ~cancel_flag
             /\ ~exists(f) /\ ~exists(part[Target(t)])
             /\ wk' = [wk EXCEPT ![c][t] = Returned("Error")]
          \/ /\ ~cancel_flag
             /\ exists(f) /\ ~e.force
             /\ ~e.validateExisting \/ verify_jpeg(f)
             /\ wk' = [wk EXCEPT ![c][t] = Returned("Skipped")]
          \/ /\ ~cancel_flag
             /\ ~(/\ exists(f) /\ ~e.force
                  /\ ~e.validateExisting \/ verify_jpeg(f))
             /\ wk' = [wk EXCEPT ![c][t].st = "attempt", ![c][t].att = 1]
    /\ UNCHANGED <<env, call, logbuf, runstate, hpc, co, final, part>>

\* download_file, lines 499-518: the cancel check that opens an attempt,
\* the request, the content type check and open(temp, "wb").
WAttempt(c, t) ==
    /\ wk[c][t].st = "attempt"
    /\ \/ /\ cancel_flag
          /\ wk' = [wk EXCEPT ![c][t].st = "intr"]
          /\ part' = part
       \/ \* image/jpeg response
          /\ ~cancel_flag
          /\ wk' = AfterOpen(c, t)
          /\ part' = [part EXCEPT ![Target(t)] = "partial"]
       \/ \* URLError, HTTPError, OSError, or a content type that is no jpeg
          /\ ~cancel_flag
          /\ wk' = [wk EXCEPT ![c][t].st = "fail"]
          /\ part' = part
       \/ \* an exception the except clauses of download_file do not name
          /\ ~cancel_flag
          /\ wk' = [wk EXCEPT ![c][t] = Returned("Exception")]
          /\ part' = part
    /\ UNCHANGED <<env, call, logbuf, runstate, hpc, co, final>>

\* WStream without the cancel check of line 522.
WStream_ignoring_cancel(c, t) ==
    /\ wk[c][t].st = "stream"
    /\ wk' = [wk EXCEPT ![c][t].st = "pchk"]
    /\ UNCHANGED <<env, call, logbuf, runstate, hpc, co, final, part>>

\* download_file, line 522
WStream(c, t) ==
    /\ wk[c][t].st = "stream"
    /\ wk' = [wk EXCEPT ![c][t] =
                 IF cancel_flag
                 THEN [IdleWk EXCEPT !.st = "intr", !.att = wk[c][t].att]
                 ELSE [wk[c][t] EXCEPT !.st = "pchk"]]
    /\ UNCHANGED <<env, call, logbuf, runstate, hpc, co, final, part>>

\* f.write(chunk) through the handle of worker (c,t), the chunk completing
\* the body or not: bytes written after another open truncated the inode
\* leave a hole before them, so they never complete it.
WriteTo(files, c, t, where, last) ==
    IF wk[c][t].h = where /\ ~wk[c][t].clob /\ last
    THEN [files EXCEPT ![Target(t)] = "new_ok"]
    ELSE files

\* download_file, line 525: the pause flag is set, the worker waits.
WPaused(c, t) ==
    /\ wk[c][t].st \in PauseCheck
    /\ pause_flag
    /\ wk' = [wk EXCEPT ![c][t].st = "wait"]
    /\ UNCHANGED <<env, call, logbuf, runstate, hpc, co, final, part>>

\* WChunk without the pause check of line 525.
WChunk_ignoring_pause(c, t) ==
    /\ wk[c][t].st \in PauseCheck
    /\ ~wk[c][t].full
    /\ \E last \in BOOLEAN :
         /\ wk' = [wk EXCEPT ![c][t].st = "stream", ![c][t].full = last]
         /\ part' = WriteTo(part, c, t, "part", last)
         /\ final' = WriteTo(final, c, t, "final", last)
    /\ UNCHANGED <<env, call, logbuf, runstate, hpc, co>>

\* download_file, lines 525-533: not paused, r.read(8192) returns a chunk,
\* which is written; `last` when it completes a body verify_jpeg accepts.
WChunk(c, t) ==
    /\ wk[c][t].st \in PauseCheck
    /\ ~pause_flag
    /\ ~wk[c][t].full
    /\ \E last \in BOOLEAN :
         /\ wk' = [wk EXCEPT ![c][t].st = "stream", ![c][t].full = last]
         /\ part' = WriteTo(part, c, t, "part", last)
         /\ final' = WriteTo(final, c, t, "final", last)
    /\ UNCHANGED <<env, call, logbuf, runstate, hpc, co>>

\* download_file, lines 525-532: not paused, the response ends.
WEnd(c, t) ==
    /\ wk[c][t].st \in PauseCheck
    /\ ~pause_flag
    /\ \/ \* r.read returns b"" (possibly before the body is complete)
          wk' = [wk EXCEPT ![c][t] =
                    [IdleWk EXCEPT !.st = "verify", !.att = wk[c][t].att]]
       \/ \* URLError, OSError, timeout
          wk' = [wk EXCEPT ![c][t] =
                    [IdleWk EXCEPT !.st = "fail", !.att = wk[c][t].att]]
       \/ \* an exception the except clauses of download_file do not name
          wk' = [wk EXCEPT ![c][t] = Returned("Exception")]
    /\ UNCHANGED <<env, call, logbuf, runstate, hpc, co, final, part>>

\* download_file, lines 526-528: pause_cond.wait(0.5) returns.
WWait(c, t) ==
    /\ wk[c][t].st = "wait"
    /\ wk' = [wk EXCEPT ![c][t] =
                 IF cancel_flag
                 THEN [IdleWk EXCEPT !.st = "intr", !.att = wk[c][t].att]
                 ELSE [wk[c][t] EXCEPT !.st = "woke"]]
    /\ UNCHANGED <<env, call, logbuf, runstate, hpc, co, final, part>>

\* download_file, line 544
WVerify(c, t) ==
    /\ wk[c][t].st = "verify"
    /\ wk' = [wk EXCEPT ![c][t].st =
                 IF verify_jpeg(part[Target(t)]) THEN "replace" ELSE "fail"]
    /\ UNCHANGED <<env, call, logbuf, runstate, hpc, co, final, part>>

\* download_file, lines 547-548 (os.replace raises OSError when the temp
\* file is gone).
WReplace(c, t) ==
    /\ wk[c][t].st = "replace"
    /\ IF exists(part[Target(t)])
       THEN /\ final' = [final EXCEPT ![Target(t)] = part[Target(t)]]
            /\ part' = [part EXCEPT ![Target(t)] = "none"]
            /\ wk' = AfterReplace(c, t, Returned("Success"))
       ELSE /\ wk' = [wk EXCEPT ![c][t].st = "fail"]
            /\ UNCHANGED <<final, part>>
    /\ UNCHANGED <<env, call, logbuf, runstate, hpc, co>>

\* download_file, lines 558-567: a retryable failure.
WFail(c, t) ==
    /\ wk[c][t].st = "fail"
    /\ IF wk[c][t].att = co[c].params.retry
       THEN /\ part' = [part EXCEPT ![Target(t)] = "none"]
            /\ wk' = AfterRemove(c, t, Returned("Error"))
       ELSE /\ wk' = [wk EXCEPT ![c][t].st = "attempt",
                                ![c][t].att = @ + 1]
            /\ part' = part
    /\ UNCHANGED <<env, call, logbuf, runstate, hpc, co, final>>

\* download_file, lines 500-505 and 550-556: cancelled, the temp file is
\* removed.
WIntr(c, t) ==
    /\ wk[c][t].st = "intr"
    /\ part' = [part EXCEPT ![Target(t)] = "none"]
    /\ wk' = AfterRemove(c, t, Returned("Cancelled"))
    /\ UNCHANGED <<env, call, logbuf, runstate, hpc, co, final>>

(***************************************************************************)
(* Specifications                                                          *)
(***************************************************************************)
Handler ==
    \/ StartRejected
    \/ StartCheck
    \/ StartSpawn
    \/ CancelSet
    \/ CancelWake
    \/ Pause
    \/ Resume
    \/ Preview

Coordinator(c) ==
    \/ CoSetRunning(c)
    \/ CoClearCancel(c)
    \/ CoInvalidDir(c)
    \/ CoValidDir(c)
    \/ CoApiError(c)
    \/ CoNoCards(c)
    \/ CoDispatch(c)
    \/ \E t \in Tasks : CoCollect(c, t)
    \/ CoReport(c)
    \/ CoFinally(c)

Worker(c, t) ==
    \/ WNotify(c, t)
    \/ WStart(c, t)
    \/ WAttempt(c, t)
    \/ WStream(c, t)
    \/ WPaused(c, t)
    \/ WChunk(c, t)
    \/ WEnd(c, t)
    \/ WWait(c, t)
    \/ WVerify(c, t)
    \/ WReplace(c, t)
    \/ WFail(c, t)
    \/ WIntr(c, t)

Next ==
    \/ Handler
    \/ \E c \in Coords : Coordinator(c)
    \/ \E c \in Coords, t \in Tasks : Worker(c, t)

Spec == Init /\ [][Next]_vars

\* Scheduling: the HTTP server finishes the request it is handling, every
\* thread that can take a step eventually takes one, and every response a
\* worker reads eventually ends (network reads are finite and subject to the
\* timeout).
Fairness ==
    /\ WF_vars(StartSpawn)
    /\ SF_vars(CancelWake)
    /\ \A c \in Coords : WF_vars(Coordinator(c))
    /\ \A c \in Coords, t \in Tasks : WF_vars(Worker(c, t))
    /\ \A c \in Coords, t \in Tasks : SF_vars(WEnd(c, t))

FairSpec == Spec /\ Fairness

\* The environments of the behaviours checked for what a second accepted
\* /api/start does to a run under way: /api/start can be accepted more than
\* once over one task, or once over NTasks tasks served by one pool thread
\* (where a queued future can be cancelled).
RestartEnvironments ==
    {e \in Environments : e.starts > 1} \cup
    {[ntasks |-> NTasks, starts |-> 1, duplicates |-> FALSE,
      params |-> {Request(FALSE, FALSE, FALSE, 1, MaxRetry)}]}

RestartInit ==
    /\ env \in RestartEnvironments
    /\ final \in InitialTrees
    /\ call = NoCall
    /\ Constructed

RestartFairSpec == RestartInit /\ [][Next]_vars /\ Fairness

(***************************************************************************)
(* Task builder (build_download_tasks), evaluated on its own.              *)
(*                                                                         *)
(* A value that card.get / img.get returns and Python takes as false (a    *)
(* missing key, None, 0, "") is 0 for an id and "" for a URL.  A type      *)
(* string is the sequence of its words: "Field Spell Card" is              *)
(* <<"Field", "Spell", "Card">>, and `x in card_type` looks for the word.  *)
(***************************************************************************)
\* Largest number of cards in a catalogue.
MaxCards == 2
\* Largest number of images of a card.
MaxImages == 2
\* Largest image id.
MaxImageId == 2

CardTypes ==
    {<<"Spell", "Card">>, <<"Field", "Spell", "Card">>,
     <<"Field", "Monster">>}

Images ==
    [id : 0..MaxImageId, image_url : {"", "u1"},
     image_url_cropped : {"", "c1"}]

SeqsUpTo(S, n) == UNION {[1..k -> S] : k \in 0..n}

\* What a card of the catalogue holds besides its id and name.
CardShapes ==
    [type : CardTypes, card_images : SeqsUpTo(Images, MaxImages)]

\* A catalogue of Len(shapes) cards: the card at position i has id i.
Catalog(shapes) ==
    [i \in 1..Len(shapes) |->
        [id |-> i, name |-> "X", type |-> shapes[i].type,
         card_images |-> shapes[i].card_images]]

\* `word in text`
Within(word, text) == \E i \in 1..Len(text) : text[i] = word

\* lines 581-592, with a task emitted for every image.
ImageTasks_unguarded(card) ==
    [i \in 1..Len(card.card_images) |->
        [card_id |-> card.id, name |-> card.name,
         image_id |-> card.card_images[i].id,
         url |-> card.card_images[i].image_url, subfolder |-> ""]]

\* lines 581-592: the standard tasks of a card.
ImageTasks(card) ==
    LET has_id_and_url(img) == img.id # 0 /\ img.image_url # ""
        imgs == SelectSeq(card.card_images, has_id_and_url)
    IN [i \in 1..Len(imgs) |->
           [card_id |-> card.id, name |-> card.name,
            image_id |-> imgs[i].id, url |-> imgs[i].image_url,
            subfolder |-> ""]]

\* FieldTasks with the type test reduced to "Field".
FieldTasks_any_field(card) ==
    IF /\ Within("Field", card.type)
       /\ card.card_images # <<>>
       /\ card.card_images[1].image_url_cropped # ""
    THEN <<[card_id |-> card.id, name |-> card.name, image_id |-> card.id,
            url |-> card.card_images[1].image_url_cropped,
            subfolder |-> "field"]>>
    ELSE <<>>

\* lines 594-605: the field task of a card.
FieldTasks(card) ==
    IF /\ Within("Field", card.type)
       /\ Within("Spell", card.type)
       /\ card.card_images # <<>>
       /\ card.card_images[1].image_url_cropped # ""
    THEN <<[card_id |-> card.id, name |-> card.name, image_id |-> card.id,
            url |-> card.card_images[1].image_url_cropped,
            subfolder |-> "field"]>>
    ELSE <<>>

RECURSIVE build_download_tasks(_)
build_download_tasks(cards) ==
    IF cards = <<>>
    THEN <<>>
    ELSE ImageTasks(Head(cards)) \o FieldTasks(Head(cards))
             \o build_download_tasks(Tail(cards))

BuildInit ==
    /\ \E k \in 0..MaxCards :
         \E shapes \in [1..k -> CardShapes] :
             call = [fn |-> "build_download_tasks", arg |-> Catalog(shapes),
                     done |-> FALSE, ret |-> <<>>]
    /\ env = CHOOSE e \in Environments : TRUE
    /\ final = CHOOSE f \in InitialTrees : TRUE
    /\ Constructed

\* tasks = build_download_tasks(filtered_cards), line 790 (and line 2475).
BuildTasks ==
    /\ call.fn = "build_download_tasks"
    /\ ~call.done
    /\ call' = [call EXCEPT !.done = TRUE,
                            !.ret = build_download_tasks(call.arg)]
    /\ UNCHANGED <<env, logbuf, runstate, hpc, co, wk, final, part>>

BuildNext == BuildTasks

BuildSpec == BuildInit /\ [][BuildNext]_vars

(***************************************************************************)
(* Catalogue filter (filter_cards), evaluated on its own.                  *)
(*                                                                         *)
(* A string is the sequence of its characters.  An optional argument is a  *)
(* record: `given` tells whether a string was passed (FALSE stands for     *)
(* None), `text` is the string.  A type, set name or set code that is      *)
(* missing or None is the empty string, as `x.get(..) or ""` makes it.     *)
(***************************************************************************)
\* Largest number of cards in a catalogue passed to filter_cards.
MaxFilterCards == 2
\* Largest number of sets of a card.
MaxSets == 2
\* Largest length of a filter string.
MaxFilterLen == 2

\* The characters of filter strings.
FilterChars == {"a", "B", " "}

Unset == [given |-> FALSE, text |-> <<>>]
Filters ==
    {Unset} \cup {[given |-> TRUE, text |-> s] :
                     s \in SeqsUpTo(FilterChars, MaxFilterLen)}

TypeStrings == {<<>>, <<"A", "b">>, <<"b", " ", "a">>}
CardSets ==
    [set_name : {<<"A">>, <<"b", "a">>}, set_code : {<<>>, <<"B">>}]
FilterShapes ==
    [type : TypeStrings, card_sets : SeqsUpTo(CardSets, MaxSets)]

\* A catalogue of Len(shapes) cards: the card at position i has id i.
FilterCatalog(shapes) ==
    [i \in 1..Len(shapes) |->
        [id |-> i, type |-> shapes[i].type,
         card_sets |-> shapes[i].card_sets]]

\* str.lower
lower(s) ==
    [i \in 1..Len(s) |->
        CASE s[i] = "A" -> "a"
          [] s[i] = "B" -> "b"
          [] OTHER -> s[i]]

\* str.strip
RECURSIVE strip(_)
strip(s) ==
    IF s = <<>> THEN s
    ELSE IF Head(s) = " " THEN strip(Tail(s))
    ELSE IF s[Len(s)] = " " THEN strip(SubSeq(s, 1, Len(s) - 1))
    ELSE s

\* `sub in text` for strings
Contains(sub, text) ==
    \E i \in 0..(Len(text) - Len(sub)) :
        SubSeq(text, i + 1, i + Len(sub)) = sub

\* `not x` for an optional string: None and "" are false.
Falsy(x) == ~x.given \/ x.text = <<>>

\* `(x or "").strip().lower()`, lines 612-613
normalized(x) == IF Falsy(x) THEN <<>> ELSE lower(strip(x.text))

\* lines 620-629 with only the set's name compared.
set_matches_name_only(card, s) ==
    \E i \in 1..Len(card.card_sets) :
        Contains(s, lower(card.card_sets[i].set_name))

\* lines 620-629: some set of the card has s in its name or code.
set_matches(card, s) ==
    \E i \in 1..Len(card.card_sets) :
        \/ Contains(s, lower(card.card_sets[i].set_name))
        \/ Contains(s, lower(card.card_sets[i].set_code))

\* lines 609-632
filter_cards(cards, type_filter, set_filter) ==
    IF Falsy(type_filter) /\ Falsy(set_filter)
    THEN cards
    ELSE LET tf == normalized(type_filter)
             sf == normalized(set_filter)
             keep(card) ==
                 /\ tf # <<>> => Contains(tf, lower(card.type))
                 /\ sf # <<>> => set_matches(card, sf)
         IN SelectSeq(cards, keep)

FilterInit ==
    /\ \E tf \in Filters, sf \in Filters :
         \E k \in 0..MaxFilterCards :
            \E shapes \in [1..k -> FilterShapes] :
                call = [fn |-> "filter_cards",
                        arg |-> [cards |-> FilterCatalog(shapes),
                                 type_filter |-> tf, set_filter |-> sf],
                        done |-> FALSE, ret |-> <<>>]
    /\ env = CHOOSE e \in Environments : TRUE
    /\ final = CHOOSE f \in InitialTrees : TRUE
    /\ Constructed

\* filtered_cards = filter_cards(cards, type_filter, set_filter), line 789
\* (and line 2474).
FilterCards ==
    /\ call.fn = "filter_cards"
    /\ ~call.done
    /\ call' = [call EXCEPT !.done = TRUE,
                            !.ret = filter_cards(call.arg.cards,
                                                 call.arg.type_filter,
                                                 call.arg.set_filter)]
    /\ UNCHANGED <<env, logbuf, runstate, hpc, co, wk, final, part>>

FilterNext == FilterCards

FilterSpec == FilterInit /\ [][FilterNext]_vars

(***************************************************************************)
(* Existing-file filter (filter_tasks over list_existing_images),          *)
(* evaluated on its own over an output tree given by its file names.       *)
(*                                                                         *)
(* A file name is a stem (an image id) and an extension, "jpg" or "JPG".   *)
(* A directory gives the content at each name, "none" where there is no    *)
(* entry.  On a case-sensitive file system a path names the entry with     *)
(* exactly its name; on a case-insensitive one it names the entry whose    *)
(* name differs at most in case, and a directory holds at most one such.   *)
(***************************************************************************)
\* Largest number of tasks passed to filter_tasks.
MaxListed == 2

Stems == 1..MaxImageId
Exts == {"jpg", "JPG"}
Names == [stem : Stems, ext : Exts]

\* str.lower on a file name
lower_name(n) == [n EXCEPT !.ext = "jpg"]

\* The directories explored: any kind of file under a lower-case name, a
\* valid one or none under an upper-case name.
Dirs ==
    {d \in [Names -> {"none", "old_bad", "old_ok"}] :
        \A n \in Names : n.ext = "JPG" => d[n] \in {"none", "old_ok"}}

\* A directory a case-insensitive file system can hold.
OneCase(d) ==
    \A n, m \in Names :
        (n # m /\ lower_name(n) = lower_name(m))
            => (d[n] = "none" \/ d[m] = "none")

ListedTasks == [image_id : Stems, subfolder : {"", "field"}]

\* The directory a task's subfolder names.
DirOf(tree, sub) == IF sub = "field" THEN tree.field ELSE tree.base

\* The content found at path <dir of sub>/<n> (os.path.exists, open).
AtPath(tree, sub, n) ==
    LET d == DirOf(tree, sub)
        same == {m \in Names : lower_name(m) = lower_name(n)
                                  /\ d[m] # "none"}
    IN IF tree.case_sensitive THEN d[n]
       ELSE IF same = {} THEN "none"
       ELSE d[CHOOSE m \in same : TRUE]

\* lines 425-435: the lower-cased names of the directory's .jpg entries.
list_existing_images(d) ==
    {lower_name(n) : n \in {m \in Names : d[m] # "none"}}

\* lines 634-654, over the names the directories hold.
filter_tasks_listed(tasks, tree, only_missing, validate_existing) ==
    IF ~only_missing /\ ~validate_existing
    THEN tasks
    ELSE LET existing_base == list_existing_images(tree.base)
             existing_field == list_existing_images(tree.field)
             keep(t) ==
                 LET fname == lower_name([stem |-> t.image_id, ext |-> "jpg"])
                     outpath == [stem |-> t.image_id, ext |-> "jpg"]
                     found == fname \in (IF t.subfolder = "field"
                                         THEN existing_field
                                         ELSE existing_base)
                 IN \/ ~found
                    \/ /\ validate_existing
                       /\ ~verify_jpeg(AtPath(tree, t.subfolder, outpath))
                    \/ /\ ~validate_existing
                       /\ ~only_missing
         IN SelectSeq(tasks, keep)

ExistingInit ==
    /\ \E b \in Dirs, f \in Dirs, cs \in BOOLEAN :
         /\ cs \/ (OneCase(b) /\ OneCase(f))
         /\ \E om \in BOOLEAN, ve \in BOOLEAN :
              \E k \in 0..MaxListed :
                 \E ts \in [1..k -> ListedTasks] :
                    call = [fn |-> "filter_tasks",
                            arg |-> [tasks |-> ts,
                                     tree |-> [base |-> b, field |-> f,
                                               case_sensitive |-> cs],
                                     only_missing |-> om,
                                     validate_existing |-> ve],
                            done |-> FALSE, ret |-> <<>>]
    /\ env = CHOOSE e \in Environments : TRUE
    /\ final = CHOOSE f \in InitialTrees : TRUE
    /\ Constructed

\* FilterTasks with every existing file that fails validation removed.
FilterTasks_removing_invalid ==
    /\ call.fn = "filter_tasks"
    /\ ~call.done
    /\ LET a == call.arg
           cleaned(d) == [n \in Names |->
                             IF d[n] = "old_bad" /\ a.validate_existing
                             THEN "none" ELSE d[n]]
       IN call' = [call EXCEPT
                     !.done = TRUE,
                     !.ret = filter_tasks_listed(a.tasks, a.tree,
                                 a.only_missing, a.validate_existing),
                     !.arg.tree.base = cleaned(a.tree.base),
                     !.arg.tree.field = cleaned(a.tree.field)]
    /\ UNCHANGED <<env, logbuf, runstate, hpc, co, wk, final, part>>

\* tasks = filter_tasks(tasks, picsdir, only_missing, validate_existing),
\* line 793 (and line 2476): the call reads the directories and returns.
FilterTasks ==
    /\ call.fn = "filter_tasks"
    /\ ~call.done
    /\ LET a == call.arg
       IN call' = [call EXCEPT
                     !.done = TRUE,
                     !.ret = filter_tasks_listed(a.tasks, a.tree,
                                 a.only_missing, a.validate_existing)]
    /\ UNCHANGED <<env, logbuf, runstate, hpc, co, wk, final, part>>

ExistingNext == FilterTasks

ExistingSpec == ExistingInit /\ [][ExistingNext]_vars

(***************************************************************************)
(* Integrity validation (verify_jpeg), evaluated on its own over files     *)
(* given by their bytes.                                                   *)
(*                                                                         *)
(* A file is its first bytes (head), a number of bytes 0 in between        *)
(* (fill) and its last bytes (tail): a file of up to MaxShort bytes is its *)
(* head alone, a longer one has two bytes of head and two of tail.         *)
(* `readable` is false for a path open() raises on: no file, a directory,  *)
(* no permission.                                                          *)
(***************************************************************************)
\* Largest size of a file given by all its bytes.
MaxShort == 3

\* FF, D8, D9 and another byte.
Bytes == {255, 216, 217, 0}

\* The numbers of bytes between head and tail: files of 5, 1023, 1024 and
\* 1025 bytes.
Fills == {1, 1019, 1020, 1021}

ShortFiles ==
    [head : SeqsUpTo(Bytes, MaxShort), fill : {0}, tail : {<<>>}]
LongFiles ==
    [head : [1..2 -> Bytes], fill : Fills, tail : [1..2 -> Bytes]]

Size(f) == Len(f.head) + f.fill + Len(f.tail)

\* The byte at offset i - 1.
ByteAt(f, i) ==
    IF i <= Len(f.head) THEN f.head[i]
    ELSE IF i <= Len(f.head) + f.fill THEN 0
    ELSE f.tail[i - Len(f.head) - f.fill]

\* f.read(n) at position pos: the bytes there, fewer than n at the end.
read(f, pos, n) ==
    LET m == IF Size(f) - pos < n THEN Size(f) - pos ELSE n
    IN [k \in 1..m |-> ByteAt(f, pos + k)]

\* lines 411-421: the body of the try block; "OSError" when open() or
\* f.seek(-2, 2) raises (a seek before the start of the file is refused).
checked(f, readable) ==
    IF ~readable THEN "OSError"
    ELSE IF read(f, 0, 2) # <<255, 216>> THEN "False"
    ELSE IF Size(f) - 2 < 0 THEN "OSError"
    ELSE IF read(f, Size(f) - 2, 2) # <<255, 217>> THEN "False"
    ELSE IF Size(f) < 1024 THEN "False"
    ELSE "True"

\* verify_jpeg without its except clause.
verify_jpeg_bytes_uncaught(f, readable) == checked(f, readable)

\* lines 409-423, over the bytes of the file.
verify_jpeg_bytes(f, readable) ==
    IF checked(f, readable) = "OSError" THEN "False"
    ELSE checked(f, readable)

VerifyInit ==
    /\ \E f \in ShortFiles \cup LongFiles, r \in BOOLEAN :
         call = [fn |-> "verify_jpeg", arg |-> [file |-> f, readable |-> r],
                 done |-> FALSE, ret |-> "none"]
    /\ env = CHOOSE e \in Environments : TRUE
    /\ final = CHOOSE f \in InitialTrees : TRUE
    /\ Constructed

\* verify_jpeg(temp), line 544 (and lines 650 and 675).
VerifyJpeg ==
    /\ call.fn = "verify_jpeg"
    /\ ~call.done
    /\ call' = [call EXCEPT
                  !.done = TRUE,
                  !.ret = verify_jpeg_bytes(call.arg.file, call.arg.readable)]
    /\ UNCHANGED <<env, logbuf, runstate, hpc, co, wk, final, part>>

VerifyNext == VerifyJpeg

VerifySpec == VerifyInit /\ [][VerifyNext]_vars

(***************************************************************************)
(* Configuration clamps (download_worker_main, lines 706-743), evaluated   *)
(* on their own over the values json.loads can put in the request.         *)
(*                                                                         *)
(* A value is a record: `kind` is "missing" (no such key), "null", "int",  *)
(* "float" (a finite float with integer part n), "inf" (json.loads reads   *)
(* 1e999 and Infinity as float('inf')), "nan", "digits" (a string int()    *)
(* parses to n), "text" (any other string), "bool" (n is 1 for true) or    *)
(* "list".                                                                 *)
(***************************************************************************)
\* Largest integer passed as a configuration value.
MaxConfig == 121

\* The integers tried: below, at, between and above the bounds of the
\* clamps.
ConfigInts == {-1, 0, 1, 7, 10, 50, 51, 120, MaxConfig}

ConfigValues ==
    [kind : {"int"}, n : ConfigInts]
        \cup [kind : {"float", "digits"}, n : {7}]
        \cup [kind : {"bool"}, n : {1}]
        \cup [kind : {"missing", "null", "inf", "nan", "text", "list"},
              n : {0}]

\* int(x): the integer, or the exception raised.
to_int(v) ==
    CASE v.kind \in {"int", "float", "digits", "bool"} ->
             [raised |-> "none", n |-> v.n]
      [] v.kind \in {"null", "list"} -> [raised |-> "TypeError", n |-> 0]
      [] v.kind \in {"nan", "text"} -> [raised |-> "ValueError", n |-> 0]
      [] v.kind = "inf" -> [raised |-> "OverflowError", n |-> 0]

\* params.get(key, default) followed by
\*     try: x = int(x)  except (ValueError, TypeError): x = default
int_or_default(v, default) ==
    IF v.kind = "missing" THEN [raised |-> "none", n |-> default]
    ELSE IF to_int(v).raised \in {"ValueError", "TypeError"}
    THEN [raised |-> "none", n |-> default]
    ELSE to_int(v)

\* lines 710-743: the exception that ends the block, if any, and the values
\* it leaves.
effective_config(p) ==
    LET c == int_or_default(p.concurrency, 12)
        t == int_or_default(p.timeout, 30)
        r == int_or_default(p.retry, 3)
        k == int_or_default(p.maxKbps, 0)
        first == IF c.raised # "none" THEN c.raised
                 ELSE IF t.raised # "none" THEN t.raised
                 ELSE IF r.raised # "none" THEN r.raised
                 ELSE k.raised
    IN [raised |-> first,
        concurrency |-> Clamp(1, 50, c.n),
        timeout |-> Clamp(10, 120, t.n),
        retry |-> Clamp(1, 10, r.n),
        maxKbps |-> IF k.n < 0 THEN 0 ELSE k.n]

ConfigInit ==
    /\ \E c \in ConfigValues, t \in ConfigValues :
         \E r \in ConfigValues, k \in ConfigValues :
            call = [fn |-> "effective_config",
                    arg |-> [concurrency |-> c, timeout |-> t, retry |-> r,
                             maxKbps |-> k],
                    done |-> FALSE,
                    ret |-> [raised |-> "none", concurrency |-> 0,
                             timeout |-> 0, retry |-> 0, maxKbps |-> 0]]
    /\ env = CHOOSE e \in Environments : TRUE
    /\ final = CHOOSE f \in InitialTrees : TRUE
    /\ Constructed

\* download_worker_main, lines 706-743.
ConfigDerive ==
    /\ call.fn = "effective_config"
    /\ ~call.done
    /\ call' = [call EXCEPT !.done = TRUE,
                            !.ret = effective_config(call.arg)]
    /\ UNCHANGED <<env, logbuf, runstate, hpc, co, wk, final, part>>

ConfigNext == ConfigDerive

ConfigSpec == ConfigInit /\ [][ConfigNext]_vars

(***************************************************************************)
(* Log buffer (DownloadState.add_log, DownloadState.reset, /api/status).   *)
(*                                                                         *)
(* Two threads call add_log: the HTTP server thread, which also resets the *)
(* state and answers /api/status, and a thread of a run.  An entry is the  *)
(* number of the append that made it.  `since` counts the appends since    *)
(* the last reset.  state.lock is held from the append to the truncation.  *)
(***************************************************************************)
\* Largest number of add_log calls in a behaviour.
MaxAppends == 102
\* Largest number of resets in a behaviour.
MaxLogResets == 1

LogThreads == {"server", "pool"}

\* s[-n:]
Newest(n, s) == IF Len(s) <= n THEN s ELSE SubSeq(s, Len(s) - n + 1, Len(s))

\* add_log, line 49: `with self.lock`.
LogAcquire(th) ==
    /\ logbuf.pc[th] = "idle"
    /\ logbuf.lock = "free"
    /\ logbuf.appended < MaxAppends
    /\ logbuf' = [logbuf EXCEPT !.lock = th, !.pc[th] = "append"]
    /\ UNCHANGED <<env, call, runstate, hpc, co, wk, final, part>>

\* add_log, lines 50-55: self.logs.append(...).
LogAppend(th) ==
    /\ logbuf.pc[th] = "append"
    /\ logbuf' = [logbuf EXCEPT
                    !.logs = Append(@, logbuf.appended + 1),
                    !.appended = @ + 1, !.since = @ + 1,
                    !.pc[th] = "trim"]
    /\ UNCHANGED <<env, call, runstate, hpc, co, wk, final, part>>

\* LogTrim keeping the oldest 100 entries.
LogTrim_keeping_oldest(th) ==
    /\ logbuf.pc[th] = "trim"
    /\ logbuf' = [logbuf EXCEPT
                    !.logs = IF Len(@) > 100 THEN SubSeq(@, 1, 100) ELSE @,
                    !.lock = "free", !.pc[th] = "idle"]
    /\ UNCHANGED <<env, call, runstate, hpc, co, wk, final, part>>

\* add_log, lines 56-57: keep the newest 100 entries; the lock is released.
LogTrim(th) ==
    /\ logbuf.pc[th] = "trim"
    /\ logbuf' = [logbuf EXCEPT
                    !.logs = IF Len(@) > 100 THEN Newest(100, @) ELSE @,
                    !.lock = "free", !.pc[th] = "idle"]
    /\ UNCHANGED <<env, call, runstate, hpc, co, wk, final, part>>

\* DownloadState.reset, line 70, under state.lock.
LogReset ==
    /\ logbuf.pc["server"] = "idle"
    /\ logbuf.lock = "free"
    /\ logbuf.resets < MaxLogResets
    /\ logbuf' = [logbuf EXCEPT !.logs = <<>>, !.since = 0,
                                !.resets = @ + 1]
    /\ UNCHANGED <<env, call, runstate, hpc, co, wk, final, part>>

\* LogSnapshot with the answer written inside the `with state.lock` block.
LogSnapshot_responding_under_lock ==
    /\ logbuf.pc["server"] = "idle"
    /\ logbuf.lock = "free"
    /\ logbuf' = [logbuf EXCEPT !.snapshot = Newest(20, logbuf.logs),
                                !.lock = "server",
                                !.pc["server"] = "respond"]
    /\ UNCHANGED <<env, call, runstate, hpc, co, wk, final, part>>

\* /api/status, lines 2313-2324: the snapshot is taken under state.lock.
LogSnapshot ==
    /\ logbuf.pc["server"] = "idle"
    /\ logbuf.lock = "free"
    /\ logbuf' = [logbuf EXCEPT !.snapshot = Newest(20, logbuf.logs),
                                !.pc["server"] = "respond"]
    /\ UNCHANGED <<env, call, runstate, hpc, co, wk, final, part>>

\* /api/status, line 2326: the answer is written, outside the lock.
LogRespond ==
    /\ logbuf.pc["server"] = "respond"
    /\ logbuf' = [logbuf EXCEPT !.snapshot = <<>>, !.pc["server"] = "idle"]
    /\ UNCHANGED <<env, call, runstate, hpc, co, wk, final, part>>

LogInit ==
    /\ env = CHOOSE e \in Environments : TRUE
    /\ final = CHOOSE f \in InitialTrees : TRUE
    /\ call = NoCall
    /\ Constructed

LogNext ==
    \/ \E th \in LogThreads : LogAcquire(th)
    \/ \E th \in LogThreads : LogAppend(th)
    \/ \E th \in LogThreads : LogTrim(th)
    \/ LogReset
    \/ LogSnapshot
    \/ LogRespond

LogSpec == LogInit /\ [][LogNext]_vars

(***************************************************************************)
(* state.lock and the blocking calls.  The threads of the log buffer also  *)
(* count (DownloadState.increment) and block: in a network call (urlopen,  *)
(* r.read, wfile.write), in time.sleep (backoff, rate limit) and in        *)
(* state.pause_cond.wait.                                                  *)
(***************************************************************************)
\* The blocking calls a thread of a run makes.
Blocking == {"network", "sleep", "pause_wait"}

\* increment, line 60: `with self.lock`.
LockIncrement(th) ==
    /\ logbuf.pc[th] = "idle"
    /\ logbuf.lock = "free"
    /\ logbuf' = [logbuf EXCEPT !.lock = th, !.pc[th] = "increment"]
    /\ UNCHANGED <<env, call, runstate, hpc, co, wk, final, part>>

\* increment, line 61: the counter is set and the lock released.
LockIncremented(th) ==
    /\ logbuf.pc[th] = "increment"
    /\ logbuf' = [logbuf EXCEPT !.lock = "free", !.pc[th] = "idle"]
    /\ UNCHANGED <<env, call, runstate, hpc, co, wk, final, part>>

\* lines 489, 513, 530 (network), 539, 567 (sleep), 526 (pause wait): the
\* thread enters a blocking call, from outside every `with state.lock`.
LockBlock(th) ==
    /\ logbuf.pc[th] = "idle"
    /\ \E op \in Blocking : logbuf' = [logbuf EXCEPT !.pc[th] = op]
    /\ UNCHANGED <<env, call, runstate, hpc, co, wk, final, part>>

\* The blocking call returns.
LockUnblock(th) ==
    /\ logbuf.pc[th] \in Blocking
    /\ logbuf' = [logbuf EXCEPT !.pc[th] = "idle"]
    /\ UNCHANGED <<env, call, runstate, hpc, co, wk, final, part>>

LockInit == LogInit

LockNext ==
    \/ \E th \in LogThreads : LogAcquire(th)
    \/ \E th \in LogThreads : LogAppend(th)
    \/ \E th \in LogThreads : LogTrim(th)
    \/ LogReset
    \/ LogSnapshot
    \/ LogRespond
    \/ LockIncrement("pool")
    \/ LockIncremented("pool")
    \/ LockBlock("pool")
    \/ LockUnblock("pool")

LockSpec == LockInit /\ [][LockNext]_vars

(***************************************************************************)
(* Retry loop of download_file (lines 498-569), evaluated on its own for   *)
(* its backoff.  The call record holds max_retries in `arg` and the state  *)
(* of the loop in `ret`: the attempt under way, its position, the sleeps   *)
(* made so far (in seconds, in order) and the outcome.                     *)
(***************************************************************************)
\* Largest max_retries passed to download_file (the clamp allows 1..10).
MaxBackoffRetry == 10

\* backoff with a wait that grows by one second per attempt.
backoff_linear(attempt) == attempt

\* line 567: the argument of time.sleep after a failed attempt.
backoff(attempt) == 2 ^ (attempt - 1)

RetryInit ==
    /\ \E n \in 1..MaxBackoffRetry :
         call = [fn |-> "download_file", arg |-> [max_retries |-> n],
                 done |-> FALSE,
                 ret |-> [attempt |-> 1, pc |-> "try", sleeps |-> <<>>,
                          outcome |-> "none"]]
    /\ env = CHOOSE e \in Environments : TRUE
    /\ final = CHOOSE f \in InitialTrees : TRUE
    /\ Constructed

\* lines 507-548: the attempt runs to os.replace, download_file returns
\* (True, None).
RetrySucceed ==
    /\ call.fn = "download_file"
    /\ ~call.done
    /\ call.ret.pc = "try"
    /\ call' = [call EXCEPT !.done = TRUE, !.ret.outcome = "Success"]
    /\ UNCHANGED <<env, logbuf, runstate, hpc, co, wk, final, part>>

\* lines 558-565: the attempt raises URLError, HTTPError, ValueError or
\* OSError; after the last attempt download_file returns the error.
RetryFail ==
    /\ call.fn = "download_file"
    /\ ~call.done
    /\ call.ret.pc = "try"
    /\ call' = IF call.ret.attempt = call.arg.max_retries
               THEN [call EXCEPT !.done = TRUE, !.ret.outcome = "Error"]
               ELSE [call EXCEPT !.ret.pc = "failed"]
    /\ UNCHANGED <<env, logbuf, runstate, hpc, co, wk, final, part>>

\* line 567 and line 498: the sleep, then the next attempt.
RetrySleep ==
    /\ call.fn = "download_file"
    /\ ~call.done
    /\ call.ret.pc = "failed"
    /\ call' = [call EXCEPT
                  !.ret.sleeps = Append(@, backoff(call.ret.attempt)),
                  !.ret.attempt = @ + 1,
                  !.ret.pc = "try"]
    /\ UNCHANGED <<env, logbuf, runstate, hpc, co, wk, final, part>>

RetryNext ==
    \/ RetrySucceed
    \/ RetryFail
    \/ RetrySleep

RetrySpec == RetryInit /\ [][RetryNext]_vars

(***************************************************************************)
(* Properties                                                              *)
(***************************************************************************)
\* The run of coordinator c has been accepted and is not yet at its end.
InProgress(c) ==
    co[c].pc \in {"spawned", "clear", "prepare", "fetch", "pool"}

Counted == processed + skipped + errors

\* C1: at most one coordinator run is active at any time (a start request
\* handled while an accepted run has not finished is rejected and spawns no
\* second coordinator thread).
C1_SingleActiveRun ==
    Cardinality({c \in Coords : Live(c)}) <= 1

\* C2: in every reachable state, and so in every status snapshot,
\* processed + skipped + errors <= total.
C2_CountedWithinTotal ==
    StatusSnapshot.processed + StatusSnapshot.skipped + StatusSnapshot.errors
        <= StatusSnapshot.total

\* C3: when a run that dispatched its task list T ends and no cancel was
\* requested during it, processed + skipped + errors = len(T).
C3_AllTasksCounted ==
    \A c \in Coords :
        (co[c].pc = "finally" /\ co[c].dispatched /\ ~co[c].cancelled)
            => Counted = Len(co[c].tasks)

\* C4: once a cancel request has been handled during a run, the cancel flag
\* stays set until that run has finished.
C4_CancelNeverLost ==
    [][\A c \in Coords :
          (Live(c) /\ co[c].cancelled /\ cancel_flag)
              => (cancel_flag' \/ ~Live(c)')]_vars

\* C5: a run during which cancel was requested eventually finishes.
C5_CancelledRunFinishes ==
    \A c \in Coords : (Live(c) /\ co[c].cancelled) ~> (co[c].pc = "done")

\* The as_completed loop of coordinator c takes, in this step, a future that
\* ended Cancelled: cancelled before it ran, or returned Cancelled by
\* download_worker_task.
CollectsCancelled(c, t) ==
    /\ \/ wk[c][t].st = "notified"
       \/ wk[c][t].st = "done" /\ wk[c][t].res = "Cancelled"
    /\ wk'[c][t].st = "collected"

C7_NoPartFileLeft ==
    (\A c \in Coords : ~Live(c)) => \A g \in Targets : ~exists(part[g])

C9_NotFinishedWhileInProgress ==
    (\E c \in Coords : InProgress(c)) => ~StatusSnapshot.finished

\* C10: a run that dispatched tasks has written its report, exactly once, by
\* the time a status snapshot can say finished = true.
C10_ReportBeforeFinished ==
    \A c \in Coords :
        (co[c].dispatched /\ StatusSnapshot.finished) => co[c].nreports = 1

\* Some run has reached its end and no run is in progress or being started.
RunFinished ==
    /\ \E c \in Coords : co[c].pc = "done"
    /\ \A c \in Coords : ~Live(c)
    /\ hpc # "start"

\* C11: once a run has finished, no pause, resume or cancel request changes
\* total, processed, skipped, errors, logs or errorDetails.
C11_FrozenAfterFinished ==
    [][(RunFinished /\ (Pause \/ Resume \/ CancelSet \/ CancelWake))
          => UNCHANGED <<total, processed, skipped, errors, logs,
                         error_details>>]_vars

\* C12: a start request rejected with 409 leaves every RunState field as it
\* was.
C12_RejectedStartChangesNothing ==
    [][StartRejected => UNCHANGED runstate]_vars

\* C12 happens: a start request can be rejected while the active run has
\* already counted a task.
C12_Witness ==
    /\ hpc = "idle"
    /\ running
    /\ Counted > 0
    /\ \E c \in Coords : co[c].pc = "pool"

\* Worker (c,t) is at a chunk boundary of an attempt: at the pause check of
\* line 525 or inside the pause wait.
AtChunkBoundary(c, t) == wk[c][t].st \in {"pchk", "wait", "woke"}

\* C13: while the pause flag is set, a worker at a chunk boundary stays at
\* it, in the same attempt, and reads no chunk; it leaves only through the
\* cancel check of the wait.  The outcome counters do not change for it.
C13_PausedWorkerBlocks ==
    [][\A c \in Coords, t \in Tasks :
          (pause_flag /\ AtChunkBoundary(c, t))
              => \/ /\ AtChunkBoundary(c, t)'
                    /\ wk'[c][t].att = wk[c][t].att
                    /\ wk'[c][t].full = wk[c][t].full
                 \/ /\ cancel_flag
                    /\ wk[c][t].st = "wait"
                    /\ wk'[c][t].st = "intr"]_vars

\* C13 happens: a worker is blocked in the pause wait in its second attempt,
\* after writing part of the body, with no cancel requested.
C13_Witness ==
    \E c \in Coords, t \in Tasks :
        /\ pause_flag
        /\ ~cancel_flag
        /\ wk[c][t].st = "wait"
        /\ wk[c][t].att = 2
        /\ part[Target(t)] = "partial"

\* Worker (c,t) is blocked in the pause wait: inside pause_cond.wait, or
\* back from it with the pause flag still set.
BlockedInPause(c, t) ==
    \/ wk[c][t].st = "wait"
    \/ wk[c][t].st = "woke" /\ pause_flag

ReturnedCancelled(c, t) ==
    /\ wk[c][t].st = "done"
    /\ wk[c][t].res = "Cancelled"
    /\ ~exists(part[Target(t)])

\* C14: a worker blocked in the pause wait when the cancel flag is set
\* eventually returns Cancelled, its temp file removed.
C14_CancelledWaiterReturns ==
    \A c \in Coords, t \in Tasks :
        (BlockedInPause(c, t) /\ cancel_flag) ~> ReturnedCancelled(c, t)

\* The as_completed loop of coordinator c takes, in this step, a future whose
\* task failed: download_worker_task returned Error or raised.
CollectsFailure(c, t) ==
    /\ wk[c][t].st = "done"
    /\ wk[c][t].res \in {"Error", "Exception"}
    /\ wk'[c][t].st = "collected"

\* C15: a failing task is counted once in errors and does not abort the
\* run: the coordinator stays in its pool loop and the other futures are
\* left to run (or, after a cancel, are cancelled while still pending).
C15_FailureDoesNotAbort ==
    [][\A c \in Coords, t \in Tasks :
          CollectsFailure(c, t)
              => /\ errors' = errors + 1
                 /\ UNCHANGED <<processed, skipped, running>>
                 /\ co'[c].pc = "pool"
                 /\ \A u \in Tasks \ {t} :
                       \/ wk'[c][u] = wk[c][u]
                       \/ /\ cancel_flag
                          /\ wk[c][u].st = "pending"
                          /\ wk'[c][u].st = "cancelled"]_vars

\* C15 happens: the only run of the behaviour, never cancelled, has written
\* its report after one task failed with an unexpected exception and the
\* other was downloaded.
C15_Witness ==
    \E c \in Coords :
        /\ env.starts = 1
        /\ co[c].pc = "finally"
        /\ ~co[c].cancelled
        /\ co[c].nreports = 1
        /\ Len(co[c].tasks) = NTasks
        /\ errors = 1
        /\ error_details = <<>>
        /\ processed = NTasks - 1

\* Coordinator c has made no catalogue request and dispatched nothing: no
\* future of its pool exists, so no image request was made for it.
NoNetworkUse(c) ==
    /\ co[c].fetches = 0
    /\ ~co[c].dispatched
    /\ \A t \in Tasks : wk[c][t].st = "none"

\* C16: a run whose output directory is invalid finishes with all counters
\* zero, having made no network request and dispatched no worker.
C16_InvalidDirAbortsClean ==
    [][\A c \in Coords :
          CoInvalidDir(c)
              => /\ ~running'
                 /\ total' = 0
                 /\ Counted' = 0
                 /\ NoNetworkUse(c)']_vars

\* C17: a run whose catalogue request fails or returns no entries finishes
\* with total = 0 and apiError set, having made exactly one catalogue
\* request and dispatched no task.
C17_CatalogFailureAborts ==
    [][\A c \in Coords :
          (CoApiError(c) \/ CoNoCards(c))
              => /\ ~running'
                 /\ total' = 0
                 /\ StatusSnapshot.api_error'
                 /\ co'[c].fetches = 1
                 /\ ~co'[c].dispatched
                 /\ \A t \in Tasks : wk'[c][t].st = "none"]_vars

\* C18: with force set, whatever onlyMissing and validateExisting are, no
\* task is filtered out because its file exists: total is the number of
\* tasks built and every one of them is submitted to the pool.
C18_ForceOverridesExisting ==
    [][\A c \in Coords :
          (CoDispatch(c) /\ co[c].params.force)
              => /\ total' = Len(AllTasks)
                 /\ co'[c].tasks = AllTasks]_vars

\* C19: the total a run sets equals the to_download count a preview answers
\* for the same request over the same output tree.
C19_PreviewMatchesRun ==
    [][\A c \in Coords, p \in env.params :
          (CoDispatch(c) /\ co[c].params = Effective(p))
              => total' = to_download(p, final)]_vars

\* build_download_tasks has returned.
Built == call.fn = "build_download_tasks" /\ call.done

\* The images of a catalogue, each with its card, in catalogue order and
\* image-list order.
RECURSIVE ImagesOf(_)
ImagesOf(cards) ==
    IF cards = <<>>
    THEN <<>>
    ELSE LET c == Head(cards)
         IN [i \in 1..Len(c.card_images) |->
                [card |-> c, img |-> c.card_images[i]]]
                \o ImagesOf(Tail(cards))

StandardTasks(tasks) ==
    LET standard(t) == t.subfolder = ""
    IN SelectSeq(tasks, standard)

\* The standard tasks are, in order, one per image of imgs, with the
\* image's id and url.
OnePerImage(tasks, imgs) ==
    /\ Len(StandardTasks(tasks)) = Len(imgs)
    /\ \A i \in 1..Len(imgs) :
          StandardTasks(tasks)[i] =
              [card_id |-> imgs[i].card.id, name |-> imgs[i].card.name,
               image_id |-> imgs[i].img.id, url |-> imgs[i].img.image_url,
               subfolder |-> ""]

UsableImages(cards) ==
    LET usable(e) == e.img.id # 0 /\ e.img.image_url # ""
    IN SelectSeq(ImagesOf(cards), usable)

\* C20 as stated: the standard tasks are one per image of the catalogue, in
\* catalogue and image-list order, without deduplication.
C20_OneTaskPerImage ==
    Built => OnePerImage(call.ret, ImagesOf(call.arg))

\* C20, amended: the standard tasks are one per image that has both an id
\* and a url, in catalogue and image-list order, without deduplication.
C20_OneTaskPerUsableImage ==
    Built => OnePerImage(call.ret, UsableImages(call.arg))

\* C20 happens: a catalogue of MaxCards cards in which an image lacks its
\* id or url and two cards carry an image with the same id, both emitted.
C20_Witness ==
    /\ Built
    /\ Len(call.arg) = MaxCards
    /\ Len(UsableImages(call.arg)) < Len(ImagesOf(call.arg))
    /\ \E i, j \in 1..Len(StandardTasks(call.ret)) :
          /\ i < j
          /\ StandardTasks(call.ret)[i].image_id
                 = StandardTasks(call.ret)[j].image_id
          /\ StandardTasks(call.ret)[i].card_id
                 # StandardTasks(call.ret)[j].card_id

\* The cards that get a field task: the type holds "Field" and "Spell", and
\* the first image has a cropped URL.
FieldCards(cards) ==
    LET wanted(c) ==
            /\ Within("Field", c.type)
            /\ Within("Spell", c.type)
            /\ Len(c.card_images) >= 1
            /\ c.card_images[1].image_url_cropped # ""
    IN SelectSeq(cards, wanted)

FieldOnly(tasks) ==
    LET field(t) == t.subfolder = "field"
    IN SelectSeq(tasks, field)

\* C21: the field tasks are, in catalogue order, one per entry whose type
\* holds both "Field" and "Spell" and whose first image has a cropped URL,
\* with imageId = the entry's id and url = that cropped URL; each is placed
\* after the standard tasks of its entry and before the tasks of the next
\* entry.
C21_FieldTaskPerFieldSpell ==
    Built =>
        LET F == FieldOnly(call.ret)
            W == FieldCards(call.arg)
        IN /\ Len(F) = Len(W)
           /\ \A i \in 1..Len(W) :
                 F[i] = [card_id |-> W[i].id, name |-> W[i].name,
                         image_id |-> W[i].id,
                         url |-> W[i].card_images[1].image_url_cropped,
                         subfolder |-> "field"]
           /\ \A j, k \in 1..Len(call.ret) :
                 j < k =>
                     /\ call.ret[j].card_id <= call.ret[k].card_id
                     /\ (call.ret[j].subfolder = "field"
                            => call.ret[j].card_id < call.ret[k].card_id)

\* C21 happens: a Field Spell entry with two images carrying cropped URLs
\* yields, after its standard tasks, one field task, and an entry of another
\* type whose first image has a cropped URL yields none.
C21_Witness ==
    /\ Built
    /\ Len(call.arg) = MaxCards
    /\ call.arg[1].type = <<"Field", "Spell", "Card">>
    /\ Len(call.arg[1].card_images) = 2
    /\ \A i \in 1..2 : call.arg[1].card_images[i].image_url_cropped # ""
    /\ Len(ImageTasks(call.arg[1])) = 2
    /\ call.arg[2].type = <<"Field", "Monster">>
    /\ Len(call.arg[2].card_images) >= 1
    /\ call.arg[2].card_images[1].image_url_cropped # ""
    /\ Len(FieldOnly(call.ret)) = 1
    /\ call.ret[3].subfolder = "field"

\* filter_cards has returned.
Filtered == call.fn = "filter_cards" /\ call.done

\* Card c passes filter text f on its type and filter text g on its sets,
\* compared without regard to case; an empty text imposes no condition.
Satisfies(c, f, g) ==
    /\ f # <<>> => Contains(lower(f), lower(c.type))
    /\ g # <<>> =>
           \E i \in 1..Len(c.card_sets) :
               \/ Contains(lower(g), lower(c.card_sets[i].set_name))
               \/ Contains(lower(g), lower(c.card_sets[i].set_code))

\* The result holds, in input order, exactly the cards that pass f and g.
ExactlyThose(f, g) ==
    /\ \A i \in 1..Len(call.ret) :
          \E j \in 1..Len(call.arg.cards) : call.ret[i] = call.arg.cards[j]
    /\ \A j \in 1..Len(call.arg.cards) :
          Satisfies(call.arg.cards[j], f, g)
              <=> \E i \in 1..Len(call.ret) :
                      call.ret[i] = call.arg.cards[j]
    /\ \A i, j \in 1..Len(call.ret) : i < j => call.ret[i].id < call.ret[j].id
    /\ (~call.arg.type_filter.given /\ ~call.arg.set_filter.given)
           => call.ret = call.arg.cards

\* C22 as stated: the result holds, in input order, exactly the entries of
\* whose type the type filter is a case-insensitive substring and of one of
\* whose sets' name or code the set filter is a case-insensitive substring;
\* an empty or unset filter imposes no condition.
C22_FilterIsSubstringMatch ==
    Filtered =>
        ExactlyThose(call.arg.type_filter.text, call.arg.set_filter.text)

\* C22, amended: the same, with each filter taken without its leading and
\* trailing whitespace (a filter of whitespace only imposes no condition).
C22_FilterIsTrimmedSubstringMatch ==
    Filtered =>
        ExactlyThose(strip(call.arg.type_filter.text),
                     strip(call.arg.set_filter.text))

\* C22 happens: both filters are given, neither is all lower case or free
\* of surrounding whitespace, and of two cards the filter keeps the second
\* only, which matches through the code of its second set.
C22_Witness ==
    /\ Filtered
    /\ Len(call.arg.cards) = MaxFilterCards
    /\ call.arg.type_filter.text = <<"B", " ">>
    /\ call.arg.set_filter.text = <<" ", "B">>
    /\ Len(call.ret) = 1
    /\ call.ret[1].id = 2
    /\ Len(call.ret[1].card_sets) = 2
    /\ call.ret[1].card_sets[1].set_code = <<>>
    /\ \A i \in 1..2 : call.ret[1].card_sets[i].set_name = <<"A">>

\* filter_tasks has returned.
FilteredTasks == call.fn = "filter_tasks" /\ call.done

\* The file at the target path of task t: <root>/<id>.jpg, or
\* <root>/field/<id>.jpg for a field task.
TargetFile(tree, t) ==
    AtPath(tree, t.subfolder, [stem |-> t.image_id, ext |-> "jpg"])

\* C23: with a flag set, filter_tasks keeps a task exactly when no file
\* exists at its target path, or validateExisting is set and the file there
\* fails validation; with no flag set it returns its input.  The tasks kept
\* stay in input order.
C23_KeepsMissingOrInvalid ==
    FilteredTasks =>
        LET a == call.arg
            kept(t) ==
                \/ ~exists(TargetFile(a.tree, t))
                \/ /\ a.validate_existing
                   /\ ~verify_jpeg(TargetFile(a.tree, t))
        IN IF ~a.only_missing /\ ~a.validate_existing
           THEN call.ret = a.tasks
           ELSE call.ret = SelectSeq(a.tasks, kept)

\* C24: filter_tasks changes no file, and applied to its own result over
\* the same directories and with the same flags it returns that result.
C24_FilterIdempotent ==
    [][FilterTasks =>
          /\ call'.arg = call.arg
          /\ filter_tasks_listed(call'.ret, call.arg.tree,
                                 call.arg.only_missing,
                                 call.arg.validate_existing) = call'.ret]_vars

\* C24 happens: with both flags set, of two tasks the one whose file is
\* valid was dropped and the one whose file fails validation was kept.
C24_Witness ==
    /\ FilteredTasks
    /\ call.arg.only_missing
    /\ call.arg.validate_existing
    /\ Len(call.arg.tasks) = 2
    /\ TargetFile(call.arg.tree, call.arg.tasks[1]) = "old_ok"
    /\ TargetFile(call.arg.tree, call.arg.tasks[2]) = "old_bad"
    /\ call.ret = <<call.arg.tasks[2]>>

\* verify_jpeg has returned or raised.
Verified == call.fn = "verify_jpeg" /\ call.done

\* C25: verify_jpeg returns true exactly when the file can be read, holds
\* at least 1024 bytes, begins with FF D8 and ends with FF D9; for every
\* other file, a missing, empty or one-byte file included, it returns false
\* and raises nothing.
C25_ValidIffMarkedAndLong ==
    Verified =>
        LET f == call.arg.file
            valid ==
                /\ call.arg.readable
                /\ Size(f) >= 1024
                /\ ByteAt(f, 1) = 255
                /\ ByteAt(f, 2) = 216
                /\ ByteAt(f, Size(f) - 1) = 255
                /\ ByteAt(f, Size(f)) = 217
        IN call.ret = IF valid THEN "True" ELSE "False"

\* C25 happens: a file of exactly 1024 bytes with both markers was accepted.
C25_Witness ==
    /\ Verified
    /\ Size(call.arg.file) = 1024
    /\ call.ret = "True"

\* The configuration block has ended.
Configured == call.fn = "effective_config" /\ call.done

\* What the statement makes of value v for a parameter with the given
\* default and range: an integer clamped, the default for a missing value
\* and for one that is no number.
Expected(v, default, lo, hi) ==
    CASE v.kind = "int" -> {Clamp(lo, hi, v.n)}
      [] v.kind \in {"missing", "null", "text", "list", "nan"} -> {default}
      [] OTHER -> lo..hi

\* C26: for every value supplied the block ends with an effective
\* concurrency in [1,50], timeout in [10,120], retry in [1,10] and rate
\* limit >= 0; an integer in range is used as it is, one out of range is
\* clamped to the nearest bound, and a missing or non-numeric value gives
\* the default 12, 30, 3 and 0.
C26_EffectiveConfigInRange ==
    Configured =>
        /\ call.ret.raised = "none"
        /\ call.ret.concurrency \in Expected(call.arg.concurrency, 12, 1, 50)
        /\ call.ret.timeout \in Expected(call.arg.timeout, 30, 10, 120)
        /\ call.ret.retry \in Expected(call.arg.retry, 3, 1, 10)
        /\ call.ret.maxKbps \in
               Expected(call.arg.maxKbps, 0, 0, MaxConfig)

\* The entries numbered from a + 1 to b, in append order.
Appends(a, b) == [k \in 1..(b - a) |-> a + k]

\* The n newest appends since the last reset.
NewestAppends(n) ==
    LET kept == IF logbuf.since < n THEN logbuf.since ELSE n
    IN Appends(logbuf.appended - kept, logbuf.appended)

\* C27: whenever no add_log is under way, the buffer holds at most 100
\* entries, which are the newest appended (since the last reset) in append
\* order, newest last; a status snapshot returns the newest 20 of them.
C27_LogHoldsNewest100 ==
    /\ [](logbuf.lock = "free" =>
              /\ Len(logbuf.logs) <= 100
              /\ logbuf.logs = NewestAppends(100))
    /\ [][LogSnapshot => logbuf'.snapshot = NewestAppends(20)]_vars

\* C27 happens: after more than 100 appends a snapshot was taken, which
\* holds 20 entries, while the other thread has appended once more.
C27_Witness ==
    /\ logbuf.since > 100
    /\ logbuf.lock = "free"
    /\ Len(logbuf.logs) = 100
    /\ logbuf.pc["server"] = "respond"
    /\ Len(logbuf.snapshot) = 20
    /\ logbuf.snapshot[20] = logbuf.appended - 1

\* Every run has ended and none of its workers raised an exception that
\* download_file does not handle (such a task is counted in errors without
\* an errorDetails entry).
EndedWithoutException ==
    /\ \E c \in Coords : co[c].pc = "done"
    /\ \A c \in Coords : ~Live(c)
    /\ errors = Len(error_details)

\* C28: when the tasks of a run share their (subfolder, imageId) and are
\* executed by different workers at once, the final path never holds a
\* partial or invalid downloaded file, and once the run has ended no .part
\* file remains.
C28_DuplicateTargetsIdempotent ==
    env.duplicates =>
        /\ \A g \in Targets :
              final[g] \in {"none", "old_ok", "old_bad", "new_ok"}
        /\ EndedWithoutException => \A g \in Targets : ~exists(part[g])

\* Future states after the task's execution, or in place of it.
Finished == {"done", "collected", "cancelled", "notified"}

\* C29: in every state of a run at most `concurrency` (clamped) of its
\* tasks are being executed; every other task of its list is queued, has
\* returned or was cancelled; a task is picked up only from the queue and
\* is never executed again after it has returned.
C29_PoolBoundedByConcurrency ==
    /\ [](\A c \in Coords :
             /\ NExecuting(c) <= co[c].params.concurrency
             /\ co[c].params.concurrency \in 1..50
             /\ co[c].pc = "pool" =>
                    \A t \in Tasks :
                        InSeq(t, co[c].tasks) <=> wk[c][t].st # "none")
    /\ [][\A c \in Coords, t \in Tasks :
             /\ (wk[c][t].st \notin Executing /\ wk'[c][t].st \in Executing)
                    => wk[c][t].st = "pending"
             /\ wk[c][t].st \in Finished
                    => wk'[c][t].st \notin Executing \cup {"pending"}]_vars

\* C29 happens: with concurrency 1 one task is being streamed while the
\* next one waits in the queue.
C29_Witness ==
    \E c \in Coords, t, u \in Tasks :
        /\ co[c].pc = "pool"
        /\ co[c].params.concurrency = 1
        /\ Len(co[c].tasks) = NTasks
        /\ wk[c][t].st = "stream"
        /\ wk[c][u].st = "pending"

\* Worker (c,t) is inside download_file and has not met a cancel request.
Fetching(c, t) ==
    /\ wk[c][t].st \in Executing \ {"intr"}
    /\ ~cancel_flag

\* C30: without a cancel, download_file with max_retries = N is always in
\* an attempt numbered 1..N; it ends only by returning success, from an
\* attempt whose body passed validation, or by returning an error, from the
\* failure of attempt N; an attempt whose body passed validation succeeds,
\* and a failed attempt before the N-th is followed by the next attempt.
C30_AtMostNAttempts ==
    [][\A c \in Coords, t \in Tasks :
          LET w == wk[c][t]
              moved == wk'[c][t].st # w.st
              N == co[c].params.retry
          IN Fetching(c, t) =>
                /\ w.att \in 1..N
                /\ wk'[c][t].st = "done" =>
                       \/ /\ w.st = "replace"
                          /\ wk'[c][t].res = "Success"
                       \/ /\ w.st = "fail"
                          /\ w.att = N
                          /\ wk'[c][t].res = "Error"
                /\ (moved /\ w.st = "replace") => wk'[c][t].res = "Success"
                /\ (moved /\ w.st = "fail" /\ w.att < N) =>
                       /\ wk'[c][t].st = "attempt"
                       /\ wk'[c][t].att = w.att + 1]_vars

\* Worker states at a cancel check of download_file: before an attempt
\* (line 499), before a chunk (line 522), after the pause wait (line 527).
AtCancelCheck == {"attempt", "stream", "wait"}

\* C31: while the cancel flag is set, a worker at a cancel check (before an
\* attempt, at a chunk boundary, after the pause wait) goes on to nothing
\* but the cancelled exit, which removes the temp file and returns
\* Cancelled without changing the final path; so it starts no new attempt,
\* and the only network operation left to it is the one chunk read whose
\* check it had already passed.
C31_CancelStopsAttempts ==
    [][\A c \in Coords, t \in Tasks :
          LET w == wk[c][t]
              moved == wk'[c][t].st # w.st
          IN /\ (cancel_flag /\ moved /\ w.st \in AtCancelCheck)
                    => wk'[c][t].st = "intr"
             /\ (cancel_flag /\ moved /\ w.st \in PauseCheck)
                    => wk'[c][t].st \in
                           {"stream", "wait", "verify", "fail", "done"}
             /\ (moved /\ w.st = "intr")
                    => /\ wk'[c][t] = Returned("Cancelled")
                       /\ ~exists(part'[Target(t)])
                       /\ final' = final]_vars

\* C31 happens: with the cancel flag set, a worker in its second attempt,
\* with part of the body written, has taken the cancelled exit.
C31_Witness ==
    \E c \in Coords, t \in Tasks :
        /\ cancel_flag
        /\ wk[c][t].st = "intr"
        /\ wk[c][t].att = 2
        /\ part[Target(t)] = "partial"

RECURSIVE SumSeq(_)
SumSeq(s) == IF s = <<>> THEN 0 ELSE Head(s) + SumSeq(Tail(s))

\* C32: the k-th sleep of a fetch, made after failed attempt k, lasts
\* 2^(k-1) seconds; there is none before attempt 1 and none after the
\* failure of the last attempt, so a fetch whose N attempts all fail has
\* slept 2^(N-1) - 1 seconds in all.
C32_BackoffDoubles ==
    call.fn = "download_file" =>
        LET r == call.ret
            N == call.arg.max_retries
        IN /\ Len(r.sleeps) = r.attempt - 1
           /\ \A k \in 1..Len(r.sleeps) :
                 r.sleeps[k] = CASE k = 1 -> 1
                                 [] k > 1 -> 2 * r.sleeps[k - 1]
           /\ r.outcome = "Error" =>
                  /\ r.attempt = N
                  /\ SumSeq(r.sleeps) = 2 ^ (N - 1) - 1

\* C32 happens: a fetch with four attempts failed them all, after sleeps of
\* 1, 2 and 4 seconds.
C32_Witness ==
    /\ call.fn = "download_file"
    /\ call.done
    /\ call.arg.max_retries = 4
    /\ call.ret.outcome = "Error"
    /\ call.ret.sleeps = <<1, 2, 4>>

\* The worker is between a failed attempt and the open(temp, "wb") of the
\* next one: in the sleep of line 567, or in the next attempt before it
\* writes.
BetweenAttempts(c, t) == wk[c][t].st = "attempt" /\ wk[c][t].att > 1

\* C33: after an attempt that failed validation or failed mid-stream, no
\* temp file is left during the backoff or during the following attempt
\* until that attempt writes, and no body that fails validation is at a
\* final path it was renamed to.  Stated for one run over distinct targets.
C33_NoStaleTempBetweenAttempts ==
    (env.starts = 1 /\ ~env.duplicates) =>
        /\ \A c \in Coords, t \in Tasks :
              BetweenAttempts(c, t) => ~exists(part[Target(t)])
        /\ \A g \in Targets : final[g] # "partial"

\* A pool thread runs download_worker_task for task t in this step.
Entered(c, t) ==
    /\ wk[c][t].st = "pending"
    /\ wk'[c][t].st \in {"done", "attempt"}

\* The files of the task's target allow the skip: the output file exists,
\* force is off, and validateExisting is off or the file is a valid JPEG.
MaySkip(c, t) ==
    LET f == final[Target(t)]
    IN /\ f # "none"
       /\ ~co[c].params.force
       /\ ~co[c].params.validateExisting \/ f \in {"old_ok", "new_ok"}

\* What C34 says of a task entered in this step: Skipped, with no request
\* made and no file written, exactly when MaySkip; otherwise, unless the
\* target directory is missing, Fetch-With-Retry begins.
SkipsExactlyWhenAllowed(c, t) ==
    /\ wk'[c][t] = Returned("Skipped") <=> MaySkip(c, t)
    /\ MaySkip(c, t) => final' = final /\ part' = part
    /\ (~MaySkip(c, t) /\ wk'[c][t] # Returned("Error"))
           => wk'[c][t].st = "attempt" /\ wk'[c][t].att = 1

\* C34 as stated: every task a worker enters is skipped exactly when the
\* output file exists, force is off and validateExisting is off or the file
\* is valid, and is otherwise handed to Fetch-With-Retry.
C34_SkipsExactlyWhenAllowed ==
    [][\A c \in Coords, t \in Tasks :
          Entered(c, t) => SkipsExactlyWhenAllowed(c, t)]_vars

\* C34, amended: the same for every task a worker enters while the cancel
\* flag is not set (with the flag set the task returns Cancelled whatever
\* the files are).
C34_SkipsExactlyWhenAllowedUnlessCancelled ==
    [][\A c \in Coords, t \in Tasks :
          (Entered(c, t) /\ ~cancel_flag)
              => SkipsExactlyWhenAllowed(c, t)]_vars

\* C34 happens: with force off, a task whose output file exists has been
\* skipped, and another task of the run, whose file is missing, is in the
\* first attempt of its fetch.
C34_Witness ==
    \E c \in Coords, t, u \in Tasks :
        /\ ~co[c].params.force
        /\ wk[c][t] = Returned("Skipped")
        /\ final[Target(t)] = "old_ok"
        /\ wk[c][u].st = "attempt"
        /\ wk[c][u].att = 1
        /\ final[Target(u)] = "none"

\* Task t of coordinator c is in the pool's queue: submitted and not yet
\* taken by a pool thread (its future pending, or cancelled and not yet
\* notified).
Queued(c, t) == wk[c][t].st \in {"pending", "cancelled"}

\* C35: for a task in the pool's queue a set cancel flag stays set until
\* the task has left the queue, and the task leaves the queue with the flag
\* set only as a cancelled future or by returning Cancelled from its entry
\* check; so a task queued when the flag was set never enters
\* download_file (it makes no request and writes no file).
C35_QueuedTasksNeverFetch ==
    [][\A c \in Coords, t \in Tasks :
          (cancel_flag /\ Queued(c, t))
              => /\ cancel_flag' \/ ~Queued(c, t)'
                 /\ wk'[c][t].st \notin Executing
                 /\ wk'[c][t].st = "done" => wk'[c][t].res = "Cancelled"]_vars

\* C36: a thread in a network call, a sleep or the pause wait does not hold
\* state.lock, and a thread that holds it is appending a log entry or
\* setting a counter (reset and the status copy take and release it within
\* one step).
C36_NoBlockingUnderLock ==
    \A th \in LogThreads :
        /\ logbuf.pc[th] \in Blocking \cup {"respond"} => logbuf.lock # th
        /\ logbuf.lock = th => logbuf.pc[th] \in {"append", "trim", "increment"}

\* C36 happens: a thread of a run is in the pause wait while the server
\* thread holds state.lock to append a log entry.
C36_Witness ==
    /\ logbuf.pc["pool"] = "pause_wait"
    /\ logbuf.lock = "server"
    /\ logbuf.pc["server"] = "append"

\* C37: state.error_details holds one entry for every error counted, so its
\* length equals state.errors (stated for a single accepted start, where no
\* second run resets or shares the counters).
C37_ErrorDetailsMatchErrors ==
    env.starts = 1 => Len(error_details) = errors

\* Coordinator c has left its pool, or never had one: it is about to set
\* state.running = False at line 908, or has done so and ended.
PastPool(c) == co[c].pc \in {"finally", "done"}

\* C38: once a coordinator is past its pool, none of its tasks is queued,
\* executing or waiting to be collected, so that no worker of a finished
\* run is left to write a file or to read or change RunState afterwards.
C38_NoWorkerOutlivesRun ==
    \A c \in Coords, t \in Tasks :
        PastPool(c) => wk[c][t].st \in {"none", "collected"}

\* C38 happens: a run that dispatched tasks has ended, and a worker of a
\* later run is writing a temp file.
C38_Witness ==
    \E c, d \in Coords, t \in Tasks :
        /\ co[c].pc = "done"
        /\ co[c].dispatched
        /\ co[d].pc = "pool"
        /\ wk[d][t].st \in Writing

\* The /api/start handler accepts the request in this step: it resets
\* RunState and spawns the coordinator thread.
Accepted == hpc = "start" /\ hpc' = "idle"

\* C39: whatever /api/cancel and /api/pause left in the flags before it, an
\* accepted start leaves both flags clear; afterwards the pause flag is set
\* only by a new /api/pause and the cancel flag only by a new /api/cancel,
\* a worker enters the pause wait only with the pause flag set, and a
\* queued task returns Cancelled from its entry check only with the cancel
\* flag set.
C39_IdleCancelPauseForgotten ==
    [][/\ Accepted => ~cancel_flag' /\ ~pause_flag'
       /\ (~pause_flag /\ pause_flag')
              => hpc = "idle" /\ UNCHANGED <<hpc, co, wk, cancel_flag>>
       /\ (~cancel_flag /\ cancel_flag') => hpc = "idle" /\ hpc' = "cancel"
       /\ \A c \in Coords, t \in Tasks :
             /\ (wk[c][t].st # "wait" /\ wk'[c][t].st = "wait")
                    => pause_flag
             /\ (Queued(c, t) /\ wk'[c][t] = Returned("Cancelled"))
                    => cancel_flag]_vars

\* C39 happens: after a run has ended, /api/cancel and /api/pause were
\* handled, and the next /api/start has passed its guard and is about to
\* reset.
C39_Witness ==
    /\ hpc = "start"
    /\ cancel_flag
    /\ pause_flag
    /\ \E c \in Coords : co[c].pc = "done"
    /\ \A c \in Coords : ~Live(c)

\* Worker (c,t) takes a step of download_file that is not the os.replace
\* completing a successful fetch.
FetchStepShortOfSuccess(c, t) ==
    /\ wk[c][t].st \in Executing
    /\ wk'[c][t].st # wk[c][t].st
    /\ wk'[c][t] # Returned("Success")

\* C40: no step of a fetch other than the rename that completes it changes
\* the file at the task's final path, so a fetch that ends in an error or
\* Cancelled has left that file as it found it.
C40_FailedFetchKeepsFinal ==
    [][\A c \in Coords, t \in Tasks :
          FetchStepShortOfSuccess(c, t)
              => final'[Target(t)] = final[Target(t)]]_vars

====
